---- MODULE Spec2Model ----
(***************************************************************************)
(* The event bus of the orchestrator (utils/event_manager.py) together     *)
(* with the threads that drive it: the main loop (Program.run), the        *)
(* scheduler's retry sweep (Program._retry_library), one worker per        *)
(* service pool running a job and its completion callback                  *)
(* (EventManager._process_future), and an API caller of cancel_job.        *)
(*                                                                         *)
(* Every modelled item is held by the store (its id is set), so add_event  *)
(* takes its `if item_id:` branch.                                         *)
(*                                                                         *)
(* State of the bus: queued (_queued_events), running (_running_events),   *)
(* futures (_futures, as future ids) and fut (each future's state, event   *)
(* and service); now is the clock next() reads.                            *)
(* Threads: the main loop (mpc its position, mev its event, msvc and mtodo *)
(* the next service and the items left to submit), the callers of          *)
(* add_event (apc the position of each, aev its event), the worker of each *)
(* pool (wfid the future it executes, 0 when idle), and the caller of      *)
(* cancel_job (citem its argument, cgone its futures_to_remove).           *)
(* History kept for the properties: arrival (the queued events in the      *)
(* order of their admission), last (the outcome of the add_event step just *)
(* taken), wcancel (cancel_job was called for the item of the job whose    *)
(* callback is under way), ncancel (the calls of cancel_job so far).       *)
(*                                                                         *)
(* The functions of the program that read no shared state (the derived     *)
(* state of an item, the state transition process_event) are studied call  *)
(* by call: call holds the arguments and the result of one call.           *)
(***************************************************************************)
EXTENDS Integers, Sequences, FiniteSets, TLC

VARIABLES now, queued, arrival, running, futures, fut,
          mpc, mev, msvc, mtodo, apc, aev, wfid, citem, cgone, ncancel, wcancel, last,
          call, media, blacklisted, downloaded, links, ran,
          store, tree, sop,
          scraped, loop, workers, began,
          lock, threads, stored,
          program, executors, loops

vars == <<now, queued, arrival, running, futures, fut,
          mpc, mev, msvc, mtodo, apc, aev, wfid, citem, cgone, ncancel, wcancel, last,
          call, media, blacklisted, downloaded, links, ran,
          store, tree, sop,
          scraped, loop, workers, began,
          lock, threads, stored,
          program, executors, loops>>

\* the variables of the bus and of its threads
busvars == <<now, queued, arrival, running, futures, fut,
             mpc, mev, msvc, mtodo, apc, aev, wfid, citem, cgone, ncancel, wcancel, last>>

\* the variables outside the bus: call is the function call under study
\* (its name, its arguments and what it returned)
\* the library and what the services keep beside it
svars == <<media, blacklisted, downloaded, links, ran>>

\* the store of media items, the show it holds and the last store operation
cvars == <<store, tree, sop>>

\* the scraping of one item: the item's scrape fields, its events on the bus,
\* the workers of the Scraping pool, and when the last scrape began (-1: never)
tvars == <<scraped, loop, workers, began>>

\* the lock of the store (the mutex of its condition and the count of
\* readers), the threads that call the store, and the ids in its _items
lvars == <<lock, threads, stored>>

\* the orchestrator (Program), the worker pools of the event bus
\* (EventManager._executors) and the threads that submit jobs
evars == <<program, executors, loops>>

pvars == <<call, svars, cvars, tvars, lvars, evars>>

----------------------------------------------------------------------------
(* Bounds of the model *)

MaxTime == 1
MaxQueue == 2
MaxRunning == 2
MaxFutures == 1
\* the calls of cancel_job the API makes
MaxCancels == 1
\* the episodes of a season, the seasons of a show
MaxEpisodes == 2
MaxSeasons == 2

\* the largest scraped_times and symlinked_times the model follows
MaxScraped == 1

MaxSymlinked == 4

----------------------------------------------------------------------------
(* The item forest held by the store: a show with one season, and a movie *)

Show1 == "show1"
Season1 == "season1"
Movie1 == "movie1"
NoItem == "none"

Items == {Show1, Season1, Movie1}

TypeOf(i) == IF i = Show1 THEN "show" ELSE IF i = Season1 THEN "season" ELSE "movie"

ParentOf(i) == IF i = Season1 THEN Show1 ELSE NoItem

\* ids["imdb_id"]: shows and movies carry one, a season does not
ImdbOf(i) == IF i = Show1 THEN "tt1" ELSE IF i = Movie1 THEN "tt2" ELSE "None"

Children(i) == IF i = Show1 THEN <<Season1>> ELSE <<>>

RECURSIVE Ancestors(_)
Ancestors(i) == IF ParentOf(i) = NoItem THEN {} ELSE {ParentOf(i)} \cup Ancestors(ParentOf(i))

Descendants(i) == {j \in Items : i \in Ancestors(j)}

\* _get_item_ids(session, item): the item's id and the ids related to it
\* through the store (its ancestors and descendants)
get_item_ids(i) == [item_id |-> i, related_ids |-> Ancestors(i) \cup Descendants(i)]

Tree(i) == {i} \cup get_item_ids(i).related_ids

----------------------------------------------------------------------------
(* Events, services, threads *)

Services == {"Scraping"}

NoService == "None"

Event(emitter, i, at) == [emitted_by |-> emitter, item |-> i, run_at |-> at]

NoEvent == Event("None", NoItem, 0)

FIds == 1..MaxFutures

\* threads that call add_event: the scheduler's retry sweep and the worker
\* of each service pool (from the completion callback)
Callers == {"RetryLibrary"} \cup Services

FreeFuture == [st |-> "free", event |-> NoEvent, service |-> NoService]

Op(name, i) == [op |-> name, item |-> i]

NoOp == Op("other", NoItem)

\* no function call made yet
NoCall == [op |-> "none"]

----------------------------------------------------------------------------
(* Helpers on sequences *)

Range(s) == {s[k] : k \in 1..Len(s)}

RECURSIVE RemoveAt(_, _)
RemoveAt(s, k) == IF k = 1 THEN Tail(s) ELSE <<Head(s)>> \o RemoveAt(Tail(s), k - 1)

\* list.remove(x): drops the first element equal to x
RemoveFirst(s, x) ==
    IF \E k \in 1..Len(s) : s[k] = x
    THEN RemoveAt(s, CHOOSE k \in 1..Len(s) : s[k] = x /\ \A j \in 1..(k - 1) : s[j] # x)
    ELSE s

Count(s, i) == Cardinality({k \in 1..Len(s) : s[k].item = i})

----------------------------------------------------------------------------
(* EventManager: the queries and the queue operations *)

id_in_queue(id) == \E k \in 1..Len(queued) : queued[k].item = id

id_in_running_events(id) == \E k \in 1..Len(running) : running[k].item = id

\* add_event without its look at the queue (only running is checked): a
\* faulty variant, which C2 must tell from add_event
add_event_skips_NoQueueCheck(i) ==
    LET ids == get_item_ids(i) IN
      \/ id_in_running_events(ids.item_id)
      \/ \E r \in ids.related_ids : id_in_running_events(r)

\* the checks of add_event for an item of the store: TRUE when the event
\* would be skipped
add_event_skips(i) ==
    LET ids == get_item_ids(i) IN
      \/ id_in_queue(ids.item_id)
      \/ id_in_running_events(ids.item_id)
      \/ \E r \in ids.related_ids : id_in_queue(r) \/ id_in_running_events(r)

add_event_to_queue(q, e) == Append(q, e)

add_event_to_running(r, e) == Append(r, e)

\* the first queued event with the item's imdb id is removed
remove_item_from_queue(q, i) ==
    IF \E k \in 1..Len(q) : ImdbOf(q[k].item) = ImdbOf(i)
    THEN RemoveAt(q, CHOOSE k \in 1..Len(q) :
                       /\ ImdbOf(q[k].item) = ImdbOf(i)
                       /\ \A j \in 1..(k - 1) : ImdbOf(q[j].item) # ImdbOf(i))
    ELSE q

RunningMatch(e, i) ==
    \/ e.item = i
    \/ (TypeOf(e.item) = "mediaitem" /\ ImdbOf(e.item) = ImdbOf(i))

\* the first running event of the item is removed
remove_item_from_running(r, i) ==
    IF \E k \in 1..Len(r) : RunningMatch(r[k], i)
    THEN RemoveAt(r, CHOOSE k \in 1..Len(r) :
                       /\ RunningMatch(r[k], i)
                       /\ \A j \in 1..(k - 1) : ~RunningMatch(r[j], i))
    ELSE r

\* a sort that puts an event before those of equal run_at (it is not
\* stable): a faulty variant, which C5 must tell from list.sort
RECURSIVE InsertByRunAt_Unstable(_, _)
InsertByRunAt_Unstable(e, s) ==
    IF s = <<>> THEN <<e>>
    ELSE IF e.run_at <= Head(s).run_at THEN <<e>> \o s
    ELSE <<Head(s)>> \o InsertByRunAt_Unstable(e, Tail(s))

\* list.sort(key=run_at): a stable insertion sort
RECURSIVE InsertByRunAt(_, _)
InsertByRunAt(e, s) ==
    IF s = <<>> THEN <<e>>
    ELSE IF e.run_at < Head(s).run_at THEN <<e>> \o s
    ELSE <<Head(s)>> \o InsertByRunAt(e, Tail(s))

RECURSIVE SortByRunAt(_)
SortByRunAt(s) ==
    IF s = <<>> THEN <<>>
    ELSE InsertByRunAt(s[Len(s)], SortByRunAt(SubSeq(s, 1, Len(s) - 1)))

\* next() without its look at the clock (the head is popped, due or not): a
\* faulty variant, which C4 must tell from next()
next_IgnoresRunAt(q, t) ==
    IF q # <<>>
    THEN [event |-> Head(SortByRunAt(q)), queue |-> Tail(SortByRunAt(q))]
    ELSE [event |-> NoEvent, queue |-> q]

\* next(): the queue is sorted in place; its head is popped when it is due,
\* otherwise Empty is raised (event = NoEvent)
next(q, t) ==
    IF q # <<>>
    THEN LET sorted == SortByRunAt(q) IN
           IF t >= Head(sorted).run_at
           THEN [event |-> Head(sorted), queue |-> Tail(sorted)]
           ELSE [event |-> NoEvent, queue |-> sorted]
    ELSE [event |-> NoEvent, queue |-> q]

\* cancel_job, the loop over the futures: a future whose item is in the
\* tree of the cancelled item has its item removed from the queues
future_in_tree(f, i) ==
    LET ids_to_cancel == {get_item_ids(i).item_id} \cup get_item_ids(i).related_ids
        fids == get_item_ids(fut[f].event.item)
    IN  fids.item_id \in ids_to_cancel \/ \E r \in fids.related_ids : r \in ids_to_cancel

RECURSIVE cancel_futures(_, _, _, _, _)
cancel_futures(fs, i, q, a, r) ==
    IF fs = <<>> THEN [queue |-> q, arrival |-> a, running |-> r]
    ELSE IF future_in_tree(Head(fs), i)
    THEN LET it == fut[Head(fs)].event.item
             q2 == remove_item_from_queue(q, it)
             gone == {k \in 1..Len(q) : ImdbOf(q[k].item) = ImdbOf(it)}
             a2 == IF gone = {} THEN a
                   ELSE RemoveFirst(a, q[CHOOSE k \in gone : \A j \in gone : k <= j])
         IN  cancel_futures(Tail(fs), i, q2, a2, remove_item_from_running(r, it))
    ELSE cancel_futures(Tail(fs), i, q, a, r)

\* cancel_job, the final clearing of queued and running
cancel_keeps(e, i) == e.item # i /\ ImdbOf(e.item) # ImdbOf(i)

cancel_clear(s, i) == SelectSeq(s, LAMBDA e : cancel_keeps(e, i))

----------------------------------------------------------------------------
(* The state after EventManager() and Program.start() *)

\* the library of the services model: one season of a one-season show and
\* its two episodes
EpisodeIds == {"e1", "e2"}

ItemIds == {"season"} \cup EpisodeIds

\* infohashes the scrapers can find
Hashes == {"h1"}

\* item.active_stream = {}
NoStream == [hash |-> "None", name |-> FALSE]

\* an indexed item no service has worked on
NewItem ==
    [file |-> "None", folder |-> FALSE, symlinked |-> FALSE, update_folder |-> "None",
     streams |-> {}, active_stream |-> NoStream, symlinked_times |-> 0, scraped_times |-> 0]

\* no service has run
NoRun == [op |-> "none"]

\* MediaItemContainer(): the four dictionaries, by the ids they hold
EmptyContainer == [items |-> {}, shows |-> {}, seasons |-> {}, episodes |-> {}]

\* no store operation yet
NoStoreOp == [op |-> "none"]

MaxWorkers == 2

\* the workers of the Scraping pool (SCRAPING_MAX_WORKERS)
Workers == 1..MaxWorkers

\* the item before its first scrape: scraped_at None (written -1),
\* scraped_times 0, no stream
NeverScraped == [at |-> -1, times |-> 0, streams |-> FALSE]

\* no event of the item queued or running, the main loop between two events
IdleLoop == [queued |-> <<>>, running |-> 0, popped |-> "None", waiting |-> 0]

\* the threads that call the store: the workers of the services, the
\* watcher of the symlinks, the handlers of the API
Threads == {"t1", "t2", "t3"}

\* ReadWriteLock(): the mutex of _read_ready is free, _readers is 0
FreeLock == [read_ready |-> "None", readers |-> 0]

\* a thread outside the store
IdleThread == [op |-> "none", pc |-> "idle", todo |-> <<>>, seen |-> {}]

\* the threads that call submit_job: the thread that calls Program.run from
\* main.py, the thread Program.start starts on Program.run, and the
\* scheduler's thread of one scheduled service
Loops == {"Main", "Riven", "Scheduler"}

\* Program() before start: not initialized, no scheduler; stop has not run
NewProgram == [initialized |-> FALSE, executors |-> <<>>, scheduler |-> "None", stopped |-> FALSE]

\* a thread that has not begun
NoLoop == [pc |-> "None", service |-> "None", pool |-> 0]

Init ==
    /\ program = NewProgram
    /\ executors = <<>>
    /\ loops = [th \in Loops |-> NoLoop]
    /\ lock = FreeLock
    /\ threads = [t \in Threads |-> IdleThread]
    /\ stored = {}
    /\ scraped = NeverScraped
    /\ loop = IdleLoop
    /\ workers = [w \in Workers |-> "idle"]
    /\ began = -1
    /\ store = EmptyContainer
    /\ tree = <<>>
    /\ sop = NoStoreOp
    /\ media = [i \in ItemIds |-> NewItem]
    /\ blacklisted = {}
    /\ downloaded = {}
    /\ links = {}
    /\ ran = NoRun
    /\ now = 0
    /\ queued = <<>>
    /\ arrival = <<>>
    /\ running = <<>>
    /\ futures = <<>>
    /\ fut = [f \in FIds |-> FreeFuture]
    /\ mpc = "next"
    /\ mev = NoEvent
    /\ msvc = NoService
    /\ mtodo = <<>>
    /\ apc = [t \in Callers |-> "idle"]
    /\ aev = [t \in Callers |-> NoEvent]
    /\ wfid = [s \in Services |-> 0]
    /\ citem = NoItem
    /\ cgone = <<>>
    /\ ncancel = 0
    /\ wcancel = [s \in Services |-> FALSE]
    /\ last = NoOp
    /\ call = NoCall

\* time passes
Tick ==
    /\ now < MaxTime
    /\ now' = now + 1
    /\ last' = NoOp
    /\ UNCHANGED <<queued, arrival, running, futures, fut, mpc, mev, msvc, mtodo, apc, aev, wfid, citem, cgone, ncancel, wcancel, pvars>>

----------------------------------------------------------------------------
(* The scheduler's retry sweep and add_event *)

\* add_event, the checks (made without the mutex): the next step of caller t
\* after it finds event e admissible (enqueue) or not (idle)
add_event_check(t, e) ==
    /\ apc' = [apc EXCEPT ![t] = IF add_event_skips(e.item) THEN "idle" ELSE "enqueue"]
    /\ aev' = [aev EXCEPT ![t] = IF add_event_skips(e.item) THEN NoEvent ELSE e]
    /\ last' = Op(IF add_event_skips(e.item) THEN "skipped" ELSE "admitted", e.item)
    /\ wcancel' = [s \in Services |-> wcancel[s] /\ ~(s = t /\ add_event_skips(e.item))]

\* _retry_library: add_event(Event("RetryLibrary", item)) for a movie or
\* show that is not Completed
RetryLibrary(i) ==
    /\ apc["RetryLibrary"] = "idle"
    /\ TypeOf(i) \in {"movie", "show"}
    /\ add_event_check("RetryLibrary", Event("RetryLibrary", i, now))
    /\ UNCHANGED <<now, queued, arrival, running, futures, fut, mpc, mev, msvc, mtodo, wfid, citem, cgone, ncancel, pvars>>

\* _process_future, the call of add_event for the yielded item
callback_add_event(s) ==
    /\ apc[s] = "check"
    /\ add_event_check(s, aev[s])
    /\ UNCHANGED <<now, queued, arrival, running, futures, fut, mpc, mev, msvc, mtodo, wfid, citem, cgone, ncancel, pvars>>

\* add_event, the call of add_event_to_queue and return True
add_event_enqueue(t) ==
    /\ apc[t] = "enqueue"
    /\ Len(queued) < MaxQueue
    /\ queued' = add_event_to_queue(queued, aev[t])
    /\ arrival' = Append(arrival, aev[t])
    /\ apc' = [apc EXCEPT ![t] = "idle"]
    /\ aev' = [aev EXCEPT ![t] = NoEvent]
    /\ last' = Op("added", aev[t].item)
    /\ wcancel' = [s \in Services |-> wcancel[s] /\ s # t]
    /\ UNCHANGED <<now, running, futures, fut, mpc, mev, msvc, mtodo, wfid, citem, cgone, ncancel, pvars>>

----------------------------------------------------------------------------
(* Program.run, the main loop *)

\* event = self.em.next() (on Empty the loop starts over)
run_next ==
    /\ mpc = "next"
    /\ LET res == next(queued, now) IN
         /\ queued' = res.queue
         /\ IF res.event # NoEvent
            THEN /\ mev' = res.event
                 /\ mpc' = "got"
                 /\ arrival' = RemoveFirst(arrival, res.event)
            ELSE UNCHANGED <<mev, mpc, arrival>>
    /\ last' = NoOp
    /\ UNCHANGED <<now, running, futures, fut, msvc, mtodo, apc, aev, wfid, citem, cgone, ncancel, wcancel, pvars>>

\* if event.item_id: self.em.add_event_to_running(event)
run_add_running ==
    /\ mpc = "got"
    /\ Len(running) < MaxRunning
    /\ running' = add_event_to_running(running, mev)
    /\ mpc' = "process"
    /\ last' = NoOp
    /\ UNCHANGED <<now, queued, arrival, futures, fut, mev, msvc, mtodo, apc, aev, wfid, citem, cgone, ncancel, wcancel, pvars>>

\* what process_event can return for an item: the next service and the
\* items to submit (the item itself, nothing, its children, or for a
\* season its parent show)
ProcessedEvents(i) ==
    {[next_service |-> s, items |-> <<i>>] : s \in Services}
    \cup {[next_service |-> NoService, items |-> <<>>]}
    \cup {[next_service |-> s, items |-> Children(i)] : s \in {NoService, "Scraping"}}
    \cup (IF TypeOf(i) = "season"
          THEN {[next_service |-> "Scraping", items |-> <<ParentOf(i)>>]}
          ELSE {})

\* process_event(...) and self.em.remove_event_from_running(event.item_id);
\* with nothing to submit the loop starts over
run_process ==
    /\ mpc = "process"
    /\ \E p \in ProcessedEvents(mev.item) :
         /\ msvc' = IF p.items = <<>> THEN NoService ELSE p.next_service
         /\ mtodo' = p.items
         /\ mpc' = IF p.items = <<>> THEN "next" ELSE "submit"
    /\ running' = remove_item_from_running(running, mev.item)
    /\ mev' = NoEvent
    /\ last' = NoOp
    /\ UNCHANGED <<now, queued, arrival, futures, fut, apc, aev, wfid, citem, cgone, ncancel, wcancel, pvars>>

\* for item_to_submit in items_to_submit, without a next service:
\* add_event_to_queue(Event("StateTransition", item))
run_submit_queue ==
    /\ mpc = "submit"
    /\ mtodo # <<>>
    /\ msvc = NoService
    /\ Len(queued) < MaxQueue
    /\ LET e == Event("StateTransition", Head(mtodo), now) IN
         /\ queued' = add_event_to_queue(queued, e)
         /\ arrival' = Append(arrival, e)
    /\ mtodo' = Tail(mtodo)
    /\ mpc' = IF Tail(mtodo) = <<>> THEN "next" ELSE "submit"
    /\ last' = NoOp
    /\ UNCHANGED <<now, running, futures, fut, mev, msvc, apc, aev, wfid, citem, cgone, ncancel, wcancel, pvars>>

\* for item_to_submit in items_to_submit, with a next service:
\* add_event_to_running(event) and submit_job(next_service, self, event)
run_submit_job ==
    /\ mpc = "submit"
    /\ mtodo # <<>>
    /\ msvc # NoService
    /\ Len(running) < MaxRunning
    /\ \E f \in FIds :
         /\ fut[f].st = "free" /\ f \notin Range(cgone)
         /\ \A g \in FIds : (fut[g].st = "free" /\ g \notin Range(cgone)) => f <= g
         /\ LET e == Event(msvc, Head(mtodo), now) IN
              /\ running' = add_event_to_running(running, e)
              /\ fut' = [fut EXCEPT ![f] = [st |-> "pending", event |-> e, service |-> msvc]]
              /\ futures' = Append(futures, f)
    /\ mtodo' = Tail(mtodo)
    /\ msvc' = IF Tail(mtodo) = <<>> THEN NoService ELSE msvc
    /\ mpc' = IF Tail(mtodo) = <<>> THEN "next" ELSE "submit"
    /\ last' = NoOp
    /\ UNCHANGED <<now, queued, arrival, mev, apc, aev, wfid, citem, cgone, ncancel, wcancel, pvars>>

----------------------------------------------------------------------------
(* The worker of a service pool (max_workers = 1): the job, then the
   completion callback _process_future in the same thread *)

Outcomes == {"item", "deferred", "none", "raise"}

\* the pool's worker takes the oldest pending job of its service
start_job(s) ==
    /\ wfid[s] = 0
    /\ apc[s] = "idle"
    /\ \E k \in 1..Len(futures) :
         /\ fut[futures[k]].st = "pending"
         /\ fut[futures[k]].service = s
         /\ \A j \in 1..(k - 1) : ~(fut[futures[j]].st = "pending" /\ fut[futures[j]].service = s)
         /\ wfid' = [wfid EXCEPT ![s] = futures[k]]
         /\ fut' = [fut EXCEPT ![futures[k]].st = "running"]
    /\ last' = NoOp
    /\ UNCHANGED <<now, queued, arrival, running, futures, mpc, mev, msvc, mtodo, apc, aev, citem, cgone, ncancel, wcancel, pvars>>

\* _process_future up to the call of add_event. The result of the job is
\* read first (it raises when the job raised), then the future is removed
\* from _futures (list.remove raises ValueError when cancel_job has removed
\* it already), and only a yielded item has its event removed from running.
\* What the callback leaves: the futures list, the running list, and the
\* follow-up event it goes on to add (NoEvent when it adds none).
process_future(f, o, fs, r, s, t) ==
    IF o = "raise" THEN [futures |-> fs, running |-> r, event |-> NoEvent, log |-> "error"]
    ELSE IF f \notin Range(fs)
    THEN [futures |-> fs, running |-> r, event |-> NoEvent, log |-> "error"]
    ELSE IF o = "none"
    THEN [futures |-> RemoveFirst(fs, f), running |-> r, event |-> NoEvent, log |-> "executed"]
    ELSE [futures |-> RemoveFirst(fs, f),
          running |-> remove_item_from_running(r, fut[f].event.item),
          event |-> Event(s, fut[f].event.item, IF o = "deferred" THEN t + 1 ELSE t),
          log |-> "executed"]

\* the job of worker s ends with outcome o and its callback runs
finish_job(s, o) ==
    /\ wfid[s] # 0
    /\ o = "deferred" => now < MaxTime
    /\ LET f == wfid[s]
           res == process_future(f, o, futures, running, s, now)
       IN  /\ futures' = res.futures
           /\ running' = res.running
           /\ fut' = [fut EXCEPT ![f] = IF f \in Range(res.futures)
                                        THEN [@ EXCEPT !.st = "done"]
                                        ELSE FreeFuture]
           /\ apc' = [apc EXCEPT ![s] = IF res.event = NoEvent THEN "idle" ELSE "check"]
           /\ aev' = [aev EXCEPT ![s] = res.event]
           /\ last' = NoOp
           /\ wcancel' = [wcancel EXCEPT ![s] = @ /\ res.event # NoEvent]
    /\ wfid' = [wfid EXCEPT ![s] = 0]
    /\ UNCHANGED <<now, queued, arrival, mpc, mev, msvc, mtodo, citem, cgone, ncancel, pvars>>

----------------------------------------------------------------------------
(* cancel_job(item), called from the API *)

\* cancel_job up to the end of its loop over _futures (no mutex is held).
\* Every future of the item's tree has its item removed from the queues and
\* is noted in futures_to_remove; future.cancel() succeeds for a job that has
\* not started (its callback then returns on CancelledError), a running job
\* goes on in its worker.
cancel_job_collect(i) ==
    /\ citem = NoItem
    /\ ncancel < MaxCancels
    /\ ncancel' = ncancel + 1
    /\ citem' = i
    /\ cgone' = SelectSeq(futures, LAMBDA f : future_in_tree(f, i))
    /\ \E res \in {cancel_futures(futures, i, queued, arrival, running)} :
         /\ queued' = res.queue
         /\ arrival' = res.arrival
         /\ running' = res.running
    /\ fut' = [f \in FIds |-> IF f \in Range(futures) /\ future_in_tree(f, i) /\ fut[f].st = "pending"
                              THEN [fut[f] EXCEPT !.st = "cancelled"] ELSE fut[f]]
    /\ wcancel' = [s \in Services |->
                      wcancel[s] \/ (wfid[s] # 0 /\ fut[wfid[s]].event.item = i)]
    /\ last' = NoOp
    /\ UNCHANGED <<now, futures, mpc, mev, msvc, mtodo, apc, aev, wfid, pvars>>

\* the futures noted by cancel_job are all still in _futures
cancel_job_returns == \A f \in Range(cgone) : f \in Range(futures)

\* futures_to_remove up to the first future that _futures no longer holds
RECURSIVE RemovedBeforeRaise(_, _)
RemovedBeforeRaise(gone, fs) ==
    IF gone = <<>> \/ Head(gone) \notin Range(fs) THEN {}
    ELSE {Head(gone)} \cup RemovedBeforeRaise(Tail(gone), fs)

\* cancel_job from `for future in futures_to_remove` on: the futures are
\* removed from _futures, then queued and running are cleared of the item.
\* list.remove raises ValueError for a future a callback has removed in the
\* meantime: the call ends there, without the clearing.
cancel_job_remove ==
    /\ citem # NoItem
    /\ \E gone \in {RemovedBeforeRaise(cgone, futures)} :
         /\ futures' = SelectSeq(futures, LAMBDA f : f \notin gone)
         /\ fut' = [f \in FIds |-> IF f \in gone /\ fut[f].st # "running"
                                   THEN FreeFuture ELSE fut[f]]
    /\ IF cancel_job_returns
       THEN /\ queued' = cancel_clear(queued, citem)
            /\ arrival' = cancel_clear(arrival, citem)
            /\ running' = cancel_clear(running, citem)
       ELSE UNCHANGED <<queued, arrival, running>>
    /\ citem' = NoItem
    /\ cgone' = <<>>
    /\ last' = NoOp
    /\ UNCHANGED <<now, mpc, mev, msvc, mtodo, apc, aev, wfid, ncancel, wcancel, pvars>>

----------------------------------------------------------------------------

(* The bus within one clock instant: every event is due as soon as it is
   queued; jobs yield their item, yield nothing or raise *)
Next ==
    \/ \E i \in Items : RetryLibrary(i)
    \/ \E s \in Services : callback_add_event(s)
    \/ \E t \in Callers : add_event_enqueue(t)
    \/ run_next
    \/ run_add_running
    \/ run_process
    \/ run_submit_queue
    \/ run_submit_job
    \/ \E s \in Services : start_job(s)
    \/ \E s \in Services, o \in Outcomes \ {"deferred"} : finish_job(s, o)

Spec == Init /\ [][Next]_vars

(* The bus with its clock: time passes, and a job yields its item with the
   current instant or with a later one (the follow-up is deferred) *)
NextClock ==
    \/ Tick
    \/ \E i \in Items : RetryLibrary(i)
    \/ \E s \in Services : callback_add_event(s)
    \/ \E t \in Callers : add_event_enqueue(t)
    \/ run_next
    \/ run_add_running
    \/ run_process
    \/ run_submit_queue
    \/ run_submit_job
    \/ \E s \in Services : start_job(s)
    \/ \E s \in Services, o \in {"item", "deferred"} : finish_job(s, o)

SpecClock == Init /\ [][NextClock]_vars

(* The bus within one clock instant, with the API's calls of cancel_job:
   jobs yield their item *)
NextCancel ==
    \/ \E i \in Items : RetryLibrary(i)
    \/ \E s \in Services : callback_add_event(s)
    \/ \E t \in Callers : add_event_enqueue(t)
    \/ run_next
    \/ run_add_running
    \/ run_process
    \/ run_submit_queue
    \/ run_submit_job
    \/ \E s \in Services : start_job(s)
    \/ \E s \in Services : finish_job(s, "item")
    \/ \E i \in Items : cancel_job_collect(i)
    \/ cancel_job_remove

SpecCancel == Init /\ [][NextCancel]_vars

----------------------------------------------------------------------------
(* Properties of the event bus *)

Events(s) == {s[k] : k \in 1..Len(s)}

CountEv(s, e) == Cardinality({k \in 1..Len(s) : s[k] = e})

\* no event of the item's tree is queued or running
TreeFree(i) ==
    \A e \in Events(queued) \cup Events(running) : e.item \notin Tree(i)

\* C1: for every event in running there is no other event in queued or
\* running whose item is the same item or one of its ancestors or descendants
C1_RunningExclusive ==
    \A k \in 1..Len(running) :
        /\ \A j \in 1..Len(queued) : queued[j].item \notin Tree(running[k].item)
        /\ \A j \in 1..Len(running) : j # k => running[j].item \notin Tree(running[k].item)

\* C3: of two threads that call add_event for the same item at the same
\* time, at most one is admitted (gets past the checks to append its event)
C3_OneCallAdmitted ==
    \A t1, t2 \in Callers :
        (t1 # t2 /\ apc[t1] = "enqueue" /\ apc[t2] = "enqueue")
            => aev[t1].item # aev[t2].item

\* C6: when a job finishes having yielded no item, its event is removed
\* from running (no event of its item is left there)
C6_ZeroYieldLeavesRunning ==
    [][\A s \in Services :
          (wfid[s] # 0 /\ finish_job(s, "none"))
              => \A k \in 1..Len(running') : running'[k].item # fut[wfid[s]].event.item]_vars

\* C7: when a job ends with an exception, its event is removed from running
\* (the failed job leaves no running entry for its item)
C7_FailedJobLeavesRunning ==
    [][\A s \in Services :
          (wfid[s] # 0 /\ finish_job(s, "raise"))
              => \A k \in 1..Len(running') : running'[k].item # fut[wfid[s]].event.item]_vars

\* the item is in running, and nothing is left that will take it out again:
\* no event of its tree is queued, held by a caller of add_event or by the
\* main loop, and no job of its tree is pending or running
Stuck(i) ==
    /\ id_in_running_events(i)
    /\ \A j \in Tree(i) :
         /\ ~id_in_queue(j)
         /\ \A t \in Callers : aev[t].item # j
         /\ mev.item # j
         /\ j \notin Range(mtodo)
         /\ \A f \in FIds : fut[f].event.item # j

\* C8: no sequence of job outcomes leaves a movie or show rejected by
\* add_event for ever. In the form a finite run refutes: no reachable state
\* has a movie or show that is stuck in running (add_event skips it from then
\* on, as no step of the retry sweep, the main loop or a worker removes it)
C8_NeverStuck ==
    \A i \in Items : TypeOf(i) \in {"movie", "show"} => ~Stuck(i)

\* every step of the retry sweep, the main loop and the workers keeps a
\* stuck item stuck
StuckStays ==
    [][\A i \in Items : Stuck(i) => Stuck(i)']_vars

Unrelated(s, i) == SelectSeq(s, LAMBDA e : e.item \notin Tree(i))

\* C9: after cancel_job(item) no event of the item's tree is queued or
\* running, no future of the tree is in futures, and the events of other
\* trees are left in place
C9_CancelClearsTree ==
    [][\A i \in Items :
          (citem = i /\ cancel_job_returns /\ cancel_job_remove) =>
              /\ \A e \in Events(queued') \cup Events(running') : e.item \notin Tree(i)
              /\ \A k \in 1..Len(futures') : fut'[futures'[k]].event.item \notin Tree(i)
              /\ Unrelated(queued', i) = Unrelated(queued, i)
              /\ Unrelated(running', i) = Unrelated(running, i)]_vars

\* C10: a job whose future cancel_job removed while it was executing runs to
\* its end, and the item it yields is discarded: the callback adds no
\* follow-up event (it does not go on to add_event, queued is unchanged)
C10_CancelledYieldDiscarded ==
    [][\A s \in Services :
          (wcancel[s] /\ apc[s] = "enqueue") => ~add_event_enqueue(s)]_vars

\* this step is the checks of a call add_event(event) for item i (every other
\* step leaves another tag in last)
AddEventCall(i) == last'.item = i /\ last'.op \in {"admitted", "skipped"}

\* C2: add_event called again and again for the same item, with nothing in
\* between: the first call (no event of the item's tree queued or running)
\* passes the checks and, when it returns True, exactly one event of the
\* item is queued; every call that follows a returned call for the same item
\* returns False and leaves queued and running unchanged
C2_AddEventIdempotent ==
    [][\A i \in Items :
          /\ (TreeFree(i) /\ AddEventCall(i)) => last' = Op("admitted", i)
          /\ (last = Op("admitted", i) /\ last' = Op("added", i)) => Count(queued', i) = 1
          /\ (last \in {Op("added", i), Op("skipped", i)} /\ AddEventCall(i))
                 => (last' = Op("skipped", i) /\ UNCHANGED <<queued, running>>)]_vars

\* C2 witness: add_event has just returned False for an item whose one
\* event is queued, nothing else of its tree being queued or running
C2_Witness ==
    \E i \in Items :
        /\ last = Op("skipped", i)
        /\ Count(queued, i) = 1
        /\ \A e \in Events(queued) \cup Events(running) : e.item \in Tree(i) => e.item = i
        /\ ~id_in_running_events(i)

\* the ghost arrival holds the queued events in the order of their admission
ArrivalIsQueued ==
    \A e \in Events(queued) \cup Events(arrival) : CountEv(arrival, e) = CountEv(queued, e)

\* C4: next() returns no event whose run_at is later than now, and a queued
\* event whose run_at is later than now stays queued; apart from the event
\* returned, queued holds the same events after the call
C4_NextNotBeforeRunAt ==
    [][run_next =>
          /\ mpc' = "got" => mev'.run_at <= now
          /\ \A e \in Events(queued) : e.run_at > now => CountEv(queued', e) = CountEv(queued, e)
          /\ \A e \in Events(queued) :
                CountEv(queued', e) = CountEv(queued, e) - (IF mpc' = "got" /\ mev' = e THEN 1 ELSE 0)
          /\ Events(queued') \subseteq Events(queued)]_vars

\* C4 witness: next() has returned a due event while an event with run_at
\* in the future stays queued
C4_Witness ==
    /\ mpc = "got"
    /\ mev.run_at <= now
    /\ \E e \in Events(queued) : e.run_at > now

\* position of the first occurrence of e in s
FirstIndex(s, e) == CHOOSE k \in 1..Len(s) : s[k] = e /\ \A j \in 1..(k - 1) : s[j] # e

\* C5: the event next() returns has the earliest run_at of the queue, and
\* among the queued events with that run_at it is the one admitted first;
\* it is removed from queued and no other event is
C5_NextEarliestFifo ==
    [][(run_next /\ mpc' = "got") =>
          /\ \A e \in Events(queued) : mev'.run_at <= e.run_at
          /\ \A e \in Events(queued) :
                e.run_at = mev'.run_at => FirstIndex(arrival, mev') <= FirstIndex(arrival, e)
          /\ \A e \in Events(queued) :
                CountEv(queued', e) = CountEv(queued, e) - (IF mev' = e THEN 1 ELSE 0)
          /\ Events(queued') \subseteq Events(queued)]_vars

\* C5 witness: next() has returned an event while another event with the
\* same run_at, admitted after it, stays queued
C5_Witness ==
    /\ mpc = "got"
    /\ \E e \in Events(queued) : e.run_at = mev.run_at /\ e # mev

----------------------------------------------------------------------------
(* Media items and their derived state (program/media/item.py).

   An item is a record of its type, of the attributes its state is derived
   from, and of its children (the episodes of a season, the seasons of a
   show).  An attribute that holds a string, a path or a collection is kept
   as a boolean: TRUE when it is set (non-empty); update_folder keeps its
   value, as the code compares it with "updated". *)

AttrNames == {"key", "symlinked", "file", "folder", "streams", "title", "imdb_id", "requested_by"}

Item(type, a, upd, ch) ==
    [type |-> type, key |-> a.key, update_folder |-> upd, symlinked |-> a.symlinked,
     file |-> a.file, folder |-> a.folder, streams |-> a.streams, title |-> a.title,
     imdb_id |-> a.imdb_id, requested_by |-> a.requested_by, children |-> ch]

\* is_scraped(): len(self.streams) > 0
is_scraped(i) == i.streams

\* MediaItem._determine_state with two of its tests in the other order
\* (Downloaded tried before Symlinked): a faulty variant, which C13 must
\* tell from it
determine_state_DownloadedFirst(i) ==
    IF i.key \/ i.update_folder = "updated" THEN "Completed"
    ELSE IF i.file /\ i.folder THEN "Downloaded"
    ELSE IF i.symlinked THEN "Symlinked"
    ELSE IF is_scraped(i) THEN "Scraped"
    ELSE IF i.title THEN "Indexed"
    ELSE IF i.imdb_id /\ i.requested_by THEN "Requested"
    ELSE "Unknown"

\* MediaItem._determine_state (movies and episodes; the same in both trees
\* of the sources)
determine_state(i) ==
    IF i.key \/ i.update_folder = "updated" THEN "Completed"
    ELSE IF i.symlinked THEN "Symlinked"
    ELSE IF i.file /\ i.folder THEN "Downloaded"
    ELSE IF is_scraped(i) THEN "Scraped"
    ELSE IF i.title THEN "Indexed"
    ELSE IF i.imdb_id /\ i.requested_by THEN "Requested"
    ELSE "Unknown"

\* a movie or an episode with any attributes
Leaves ==
    {Item(t, a, u, <<>>) : t \in {"movie", "episode"}, a \in [AttrNames -> BOOLEAN],
                          u \in {"None", "updated"}}

\* state = item._determine_state() for a movie or an episode
call_determine_state ==
    /\ call = NoCall
    /\ \E i \in Leaves :
         call' = [op |-> "determine_state", item |-> i, result |-> determine_state(i)]
    /\ UNCHANGED <<busvars, evars, svars, cvars, tvars, lvars>>

SpecState == Init /\ [][call_determine_state]_vars

\* C13: the state of a movie or episode is given by its attributes through
\* the first rule that matches, in this order: key set or update_folder =
\* "updated": Completed; symlinked: Symlinked; file and folder set:
\* Downloaded; streams non-empty: Scraped; title set: Indexed; imdb_id and
\* requested_by set: Requested; otherwise Unknown
C13_LeafStateRules ==
    call.op = "determine_state" =>
        LET i == call.item
            r1 == i.key \/ i.update_folder = "updated"
            r2 == i.symlinked
            r3 == i.file /\ i.folder
            r4 == i.streams
            r5 == i.title
            r6 == i.imdb_id /\ i.requested_by
        IN  /\ call.result = "Completed" <=> r1
            /\ call.result = "Symlinked" <=> (~r1 /\ r2)
            /\ call.result = "Downloaded" <=> (~r1 /\ ~r2 /\ r3)
            /\ call.result = "Scraped" <=> (~r1 /\ ~r2 /\ ~r3 /\ r4)
            /\ call.result = "Indexed" <=> (~r1 /\ ~r2 /\ ~r3 /\ ~r4 /\ r5)
            /\ call.result = "Requested" <=> (~r1 /\ ~r2 /\ ~r3 /\ ~r4 /\ ~r5 /\ r6)
            /\ call.result = "Unknown" <=> ~(r1 \/ r2 \/ r3 \/ r4 \/ r5 \/ r6)

\* C13 witness: an episode with several rules matching (symlinked, file and
\* folder, streams, title) got the state of the first of them
C13_Witness ==
    /\ call.op = "determine_state"
    /\ call.item.type = "episode"
    /\ ~call.item.key /\ call.item.update_folder = "None"
    /\ call.item.symlinked /\ call.item.file /\ call.item.folder
    /\ call.item.streams /\ call.item.title
    /\ call.result = "Symlinked"

----------------------------------------------------------------------------
(* The derived state of seasons and shows *)

AllOf(ch, P(_)) == \A k \in 1..Len(ch) : P(ch[k])

AnyOf(ch, P(_)) == \E k \in 1..Len(ch) : P(ch[k])

\* Season._determine_state (src/src/program/media/item.py)
Season_determine_state(i) ==
    LET eps == i.children IN
    IF Len(eps) > 0
    THEN IF AllOf(eps, LAMBDA e : determine_state(e) = "Completed") THEN "Completed"
         ELSE IF AllOf(eps, LAMBDA e : determine_state(e) = "Symlinked") THEN "Symlinked"
         ELSE IF AllOf(eps, LAMBDA e : e.file /\ e.folder) THEN "Downloaded"
         ELSE IF is_scraped(i) THEN "Scraped"
         ELSE IF AnyOf(eps, LAMBDA e : determine_state(e) = "Completed") THEN "PartiallyCompleted"
         ELSE IF AnyOf(eps, LAMBDA e : determine_state(e) = "Indexed") THEN "Indexed"
         ELSE IF AnyOf(eps, LAMBDA e : determine_state(e) = "Requested") THEN "Requested"
         ELSE "Unknown"
    ELSE "Unknown"

\* Show._determine_state (src/src/program/media/item.py)
Show_determine_state(i) ==
    LET ss == i.children IN
    IF AllOf(ss, LAMBDA x : Season_determine_state(x) = "Completed") THEN "Completed"
    ELSE IF AllOf(ss, LAMBDA x : Season_determine_state(x) = "Symlinked") THEN "Symlinked"
    ELSE IF AllOf(ss, LAMBDA x : Season_determine_state(x) = "Downloaded") THEN "Downloaded"
    ELSE IF is_scraped(i) THEN "Scraped"
    ELSE IF AnyOf(ss, LAMBDA x : Season_determine_state(x) \in {"Completed", "PartiallyCompleted"})
    THEN "PartiallyCompleted"
    ELSE IF AnyOf(ss, LAMBDA x : Season_determine_state(x) = "Indexed") THEN "Indexed"
    ELSE IF AnyOf(ss, LAMBDA x : Season_determine_state(x) = "Requested") THEN "Requested"
    ELSE "Unknown"

\* Season._determine_state (src/backend/program/media/item.py)
backend_Season_determine_state(i) ==
    LET eps == i.children IN
    IF Len(eps) > 0
    THEN IF AllOf(eps, LAMBDA e : determine_state(e) = "Completed") THEN "Completed"
         ELSE IF AnyOf(eps, LAMBDA e : determine_state(e) = "Completed") THEN "PartiallyCompleted"
         ELSE IF AllOf(eps, LAMBDA e : determine_state(e) = "Symlinked") THEN "Symlinked"
         ELSE IF AllOf(eps, LAMBDA e : e.file /\ e.folder) THEN "Downloaded"
         ELSE IF is_scraped(i) THEN "Scraped"
         ELSE IF AllOf(eps, LAMBDA e : determine_state(e) = "Indexed") THEN "Indexed"
         ELSE IF AnyOf(eps, LAMBDA e : determine_state(e) = "Requested") THEN "Requested"
         ELSE "Unknown"
    ELSE "Unknown"

\* Show._determine_state (src/backend/program/media/item.py)
backend_Show_determine_state(i) ==
    LET ss == i.children
        st(x) == backend_Season_determine_state(x)
    IN
    IF AllOf(ss, LAMBDA x : st(x) = "Completed") THEN "Completed"
    ELSE IF AnyOf(ss, LAMBDA x : st(x) \in {"Completed", "PartiallyCompleted"})
    THEN "PartiallyCompleted"
    ELSE IF AnyOf(ss, LAMBDA x : st(x) = "Symlinked") THEN "Symlinked"
    ELSE IF AnyOf(ss, LAMBDA x : st(x) = "Downloaded") THEN "Downloaded"
    ELSE IF AnyOf(ss, LAMBDA x : st(x) = "Scraped") THEN "Scraped"
    ELSE IF AnyOf(ss, LAMBDA x : st(x) = "Indexed") THEN "Indexed"
    ELSE IF AnyOf(ss, LAMBDA x : st(x) = "Requested") THEN "Requested"
    ELSE "Unknown"

\* item.state, by the class of the item
state(i) ==
    IF i.type = "show" THEN Show_determine_state(i)
    ELSE IF i.type = "season" THEN Season_determine_state(i)
    ELSE determine_state(i)

backend_state(i) ==
    IF i.type = "show" THEN backend_Show_determine_state(i)
    ELSE IF i.type = "season" THEN backend_Season_determine_state(i)
    ELSE determine_state(i)

\* the attributes an item has gathered when the services have brought it to
\* a state: requested (imdb_id, requested_by), indexed (title), scraped
\* (streams), downloaded (file, folder), symlinked, completed (key);
\* "Library" is an item the library scan found with its key, which was
\* never downloaded
Stages == <<"Unknown", "Requested", "Indexed", "Scraped", "Downloaded", "Symlinked", "Completed">>

StageOf(st) == CHOOSE k \in 1..Len(Stages) : Stages[k] = st

AttrsAt(st) ==
    IF st = "Library"
    THEN [n \in AttrNames |-> n \in {"key", "title", "imdb_id"}]
    ELSE LET k == StageOf(st) IN
         [n \in AttrNames |->
            CASE n \in {"imdb_id", "requested_by"} -> k >= 2
              [] n = "title" -> k >= 3
              [] n = "streams" -> k >= 4
              [] n \in {"file", "folder"} -> k >= 5
              [] n = "symlinked" -> k >= 6
              [] n = "key" -> k >= 7]

Episodes == {Item("episode", AttrsAt(st), "None", <<>>) : st \in Range(Stages) \cup {"Library"}}

SeqsUpTo(S, n) == UNION {[1..k -> S] : k \in 0..n}

\* seasons: their own key and streams set or not, up to MaxEpisodes episodes
Seasons ==
    {Item("season", [AttrsAt("Indexed") EXCEPT !.key = k, !.streams = str], "None", eps) :
        k \in BOOLEAN, str \in BOOLEAN, eps \in SeqsUpTo(Episodes, MaxEpisodes)}

\* shows: their own streams set or not, up to MaxSeasons seasons of
\* indexed, downloaded or completed episodes
Shows ==
    LET eps == {Item("episode", AttrsAt(st), "None", <<>>) : st \in {"Indexed", "Downloaded", "Completed"}}
        ss == {Item("season", AttrsAt("Indexed"), "None", l) : l \in SeqsUpTo(eps, MaxEpisodes)}
    IN  {Item("show", [AttrsAt("Indexed") EXCEPT !.streams = str], "None", l) :
            str \in BOOLEAN, l \in SeqsUpTo(ss, MaxSeasons)}

\* state = season.state or show.state, in either tree of the sources
call_Season_determine_state ==
    /\ call = NoCall
    /\ \E i \in Seasons :
         call' = [op |-> "Season_determine_state", item |-> i, result |-> Season_determine_state(i)]
    /\ UNCHANGED <<busvars, evars, svars, cvars, tvars, lvars>>

call_Show_determine_state ==
    /\ call = NoCall
    /\ \E i \in Shows :
         call' = [op |-> "Show_determine_state", item |-> i, result |-> Show_determine_state(i),
                  children |-> [k \in 1..Len(i.children) |-> Season_determine_state(i.children[k])]]
    /\ UNCHANGED <<busvars, evars, svars, cvars, tvars, lvars>>

call_backend_Season_determine_state ==
    /\ call = NoCall
    /\ \E i \in Seasons :
         call' = [op |-> "backend_Season_determine_state", item |-> i,
                  result |-> backend_Season_determine_state(i)]
    /\ UNCHANGED <<busvars, evars, svars, cvars, tvars, lvars>>

call_backend_Show_determine_state ==
    /\ call = NoCall
    /\ \E i \in Shows :
         call' = [op |-> "backend_Show_determine_state", item |-> i,
                  result |-> backend_Show_determine_state(i),
                  children |-> [k \in 1..Len(i.children) |-> backend_Season_determine_state(i.children[k])]]
    /\ UNCHANGED <<busvars, evars, svars, cvars, tvars, lvars>>

NextAggregate ==
    \/ call_Season_determine_state
    \/ call_Show_determine_state
    \/ call_backend_Season_determine_state
    \/ call_backend_Show_determine_state

SpecAggregate == Init /\ [][NextAggregate]_vars

\* the states of the children of the item of the call
ChildStates ==
    IF call.op \in {"Season_determine_state", "backend_Season_determine_state"}
    THEN [k \in 1..Len(call.item.children) |-> determine_state(call.item.children[k])]
    ELSE call.children

\* C14: a season, with or without episodes, with or without a key of its
\* own, is Completed if and only if every episode of it is Completed
C14_SeasonCompletedIff ==
    call.op \in {"Season_determine_state", "backend_Season_determine_state"} =>
        (call.result = "Completed" <=> \A k \in 1..Len(ChildStates) : ChildStates[k] = "Completed")

\* C15: a season or show is PartiallyCompleted if and only if one of its
\* children at least is Completed and one at least is not, whatever its own
\* streams and the file and folder of its children
C15_PartiallyCompletedIff ==
    call.op \in {"Season_determine_state", "backend_Season_determine_state",
                 "Show_determine_state", "backend_Show_determine_state"} =>
        (call.result = "PartiallyCompleted" <=>
            /\ \E k \in 1..Len(ChildStates) : ChildStates[k] = "Completed"
            /\ \E k \in 1..Len(ChildStates) : ChildStates[k] # "Completed")

\* the place of a state in the pipeline; PartiallyCompleted and Unknown are
\* before every stage
StageRank(st) == IF st \in Range(Stages) THEN StageOf(st) ELSE 0

\* C32: a season or show with children derives Symlinked (Downloaded,
\* Scraped) if and only if every child is at least Symlinked (Downloaded,
\* Scraped) and not every child is at a later state; a season whose
\* episodes are Symlinked and Completed mixed is not Downloaded.
C32_AggregateAtLeast ==
    (call.op \in {"Season_determine_state", "Show_determine_state"} /\ Len(ChildStates) > 0) =>
        \A st \in {"Symlinked", "Downloaded", "Scraped"} :
            call.result = st <=>
                /\ \A k \in 1..Len(ChildStates) : StageRank(ChildStates[k]) >= StageRank(st)
                /\ \E k \in 1..Len(ChildStates) : StageRank(ChildStates[k]) = StageRank(st)

----------------------------------------------------------------------------
(* The state transition process_event(existing_item, emitted_by, item).

   What the function reads beside the items is given with the call, in env:
   index_due (TraktIndexer.should_submit), can_scrape
   (Scraping.can_we_scrape), sub_due (Subliminal.should_submit), subliminal
   (the setting post_processing.subliminal.enabled), indexed_at (the
   existing item has its indexed_at set); for src/backend also scrape_due
   (Scraping.should_submit), scraped_before (item.scraped_times > 0) and
   symlink_ok (Symlinker.should_submit). *)

NoneItem == [type |-> "None"]

\* item.parent, for a season
Parent(i) == [type |-> "show", parent_of |-> i]

\* (updated_item, next_service, items_to_submit)
ProcessedEvent(u, svc, items) == [updated |-> u, next_service |-> svc, items |-> items, raised |-> FALSE]

no_further_processing == ProcessedEvent(NoneItem, "None", <<>>)

\* the function ends with an exception (a local name read before it is bound)
UnboundLocalError == [updated |-> NoneItem, next_service |-> "None", items |-> <<>>, raised |-> TRUE]

source_services == {"Overseerr", "PlexWatchlist", "Listrr", "Mdblist", "SymlinkLibrary", "TraktContent"}

\* [x for x in ch if P(x)]
Filter(ch, P(_)) == SelectSeq(ch, P)

RECURSIVE Concat(_)
Concat(ss) == IF ss = <<>> THEN <<>> ELSE Head(ss) \o Concat(Tail(ss))

\* existing_item after copy_other_media_attr(item) and
\* fill_in_missing_children(item): the metadata of item (title) is copied;
\* the two hold the same children
Merged(existing, item) == [existing EXCEPT !.title = item.title]

\* process_event of src/src/program/state_transition.py
RECURSIVE process_event(_, _, _, _)
process_event(existing_item, emitted_by, item, env) ==
    IF emitted_by \in source_services \/ state(item) = "Requested"
    THEN IF existing_item # NoneItem /\ ~env.index_due
         THEN no_further_processing
         ELSE ProcessedEvent(NoneItem, "TraktIndexer",
                             <<IF item.type = "season" THEN Parent(item) ELSE item>>)
    ELSE IF state(item) \in {"Unknown", "PartiallyCompleted"}
    THEN ProcessedEvent(item, "None",
            IF item.type \in {"show", "season"}
            THEN Concat([k \in 1..Len(item.children) |->
                           IF state(item.children[k]) # "Completed"
                           THEN process_event(item.children[k], emitted_by, item.children[k], env).items
                           ELSE <<>>])
            ELSE <<>>)
    ELSE IF state(item) = "Indexed"
    THEN IF existing_item = NoneItem
         THEN ProcessedEvent(item, "Scraping", <<>>)
         ELSE LET ex == IF env.indexed_at THEN existing_item ELSE Merged(existing_item, item)
                  it == IF env.indexed_at THEN item ELSE ex
              IN  IF state(ex) = "Completed" THEN ProcessedEvent(ex, "None", <<>>)
                  ELSE ProcessedEvent(it, "Scraping",
                         IF emitted_by # "Scraping" /\ env.can_scrape THEN <<ex>>
                         ELSE IF it.type \in {"show", "season"}
                         THEN Filter(it.children, LAMBDA c : state(c) # "Completed" /\ env.can_scrape)
                         ELSE <<>>)
    ELSE IF state(item) = "Scraped" THEN ProcessedEvent(item, "Downloader", <<item>>)
    ELSE IF state(item) = "Downloaded" THEN ProcessedEvent(item, "Symlinker", <<item>>)
    ELSE IF state(item) = "Symlinked" THEN ProcessedEvent(item, "Updater", <<item>>)
    ELSE IF state(item) # "Completed" THEN ProcessedEvent(item, "None", <<>>)
    ELSE IF emitted_by = "PostProcessing" THEN no_further_processing
         ELSE IF ~env.subliminal THEN ProcessedEvent(item, "None", <<>>)
         ELSE LET items ==
                    IF item.type \in {"movie", "episode"}
                    THEN (IF env.sub_due THEN <<item>> ELSE <<>>)
                    ELSE IF item.type = "show"
                    THEN Concat([k \in 1..Len(item.children) |->
                                   Filter(item.children[k].children,
                                          LAMBDA e : state(e) = "Completed" /\ env.sub_due)])
                    ELSE Filter(item.children, LAMBDA e : state(e) = "Completed" /\ env.sub_due)
              IN  IF items = <<>> THEN no_further_processing
                  ELSE ProcessedEvent(item, "PostProcessing", items)

backend_source_services == {"Overseerr", "PlexWatchlist", "Listrr", "Mdblist", "SymlinkLibrary"}

\* process_event of src/backend/program/state_transition.py
backend_process_event(existing_item, emitted_by, item, env) ==
    IF emitted_by \in backend_source_services \/ backend_state(item) = "Unknown"
    THEN IF existing_item # NoneItem /\ ~env.index_due
         THEN no_further_processing
         ELSE ProcessedEvent(NoneItem, "TraktIndexer",
                             <<IF item.type = "season" THEN Parent(item) ELSE item>>)
    ELSE IF emitted_by = "TraktIndexer" \/ backend_state(item) = "Indexed"
    THEN LET merge == existing_item # NoneItem /\ ~env.indexed_at
             ex == IF merge THEN Merged(existing_item, item) ELSE existing_item
             it == IF merge THEN ex ELSE item
         IN  IF existing_item # NoneItem /\ backend_state(ex) = "Completed"
             THEN ProcessedEvent(ex, "None", <<>>)
             ELSE ProcessedEvent(it, "Scraping",
                    IF env.scraped_before /\ it.type \in {"show", "season"}
                    THEN Filter(it.children, LAMBDA c : backend_state(c) # "Completed")
                    ELSE IF env.scrape_due THEN <<it>> ELSE <<>>)
    ELSE IF backend_state(item) = "PartiallyCompleted"
    THEN IF item.type \in {"show", "season"}
         THEN ProcessedEvent(item, "Scraping",
                             Filter(item.children, LAMBDA c : backend_state(c) # "Completed"))
         ELSE UnboundLocalError
    ELSE IF backend_state(item) = "Scraped" THEN ProcessedEvent(item, "Debrid", <<item>>)
    ELSE IF backend_state(item) = "Downloaded"
    THEN IF item.type = "show" THEN UnboundLocalError
         ELSE ProcessedEvent(item, "Symlinker",
                Filter(IF item.type = "season" THEN item.children ELSE <<item>>,
                       LAMBDA c : env.symlink_ok))
    ELSE IF backend_state(item) = "Symlinked"
    THEN ProcessedEvent(item, "PlexUpdater",
                        IF item.type \in {"show", "season"} THEN item.children ELSE <<item>>)
    ELSE IF backend_state(item) = "Completed" THEN no_further_processing
    ELSE UnboundLocalError

\* the services an event can come from
Emitters == {"Overseerr", "TraktIndexer", "Scraping", "Downloader", "Symlinker", "Updater", "PostProcessing"}

backend_Emitters == {"Overseerr", "TraktIndexer", "Scraping", "Debrid", "Symlinker", "PlexUpdater"}

Env == [index_due : BOOLEAN, indexed_at : BOOLEAN, can_scrape : BOOLEAN, subliminal : BOOLEAN, sub_due : BOOLEAN]

backend_Env == [index_due : BOOLEAN, indexed_at : BOOLEAN, scraped_before : BOOLEAN, scrape_due : BOOLEAN, symlink_ok : BOOLEAN]

\* the items of an event: a movie or an episode at each stage of its life,
\* a season, a show
EventItems ==
    {Item(t, AttrsAt(st), "None", <<>>) : t \in {"movie", "episode"}, st \in {Stages[k] : k \in 1..Len(Stages)}}
        \cup {s \in Seasons : ~s.key} \cup {s \in Shows : Len(s.children) = 1}

\* the copy of the item the library holds: none, the same item, or the
\* item with its key (the media server has it)
Existing(i) == {NoneItem, i, [i EXCEPT !.key = TRUE]}

call_process_event ==
    /\ call = NoCall
    /\ \E i \in EventItems, by \in Emitters, env \in Env : \E ex \in Existing(i) :
          call' = [op |-> "process_event", item |-> i, existing |-> ex, emitted_by |-> by,
                   env |-> env, st |-> state(i), result |-> process_event(ex, by, i, env)]
    /\ UNCHANGED <<busvars, evars, svars, cvars, tvars, lvars>>

call_backend_process_event ==
    /\ call = NoCall
    /\ \E i \in EventItems, by \in backend_Emitters, env \in backend_Env : \E ex \in Existing(i) :
          call' = [op |-> "backend_process_event", item |-> i, existing |-> ex, emitted_by |-> by,
                   env |-> env, st |-> backend_state(i), result |-> backend_process_event(ex, by, i, env)]
    /\ UNCHANGED <<busvars, evars, svars, cvars, tvars, lvars>>

NextTransition == call_process_event \/ call_backend_process_event

SpecTransition == Init /\ [][NextTransition]_vars

ProcessCalls == {"process_event", "backend_process_event"}

\* C11: process_event on an item whose state is Completed returns the item
\* itself as the updated item, no next service and nothing to submit.  The
\* rows of the decision table that come first are left out: the emitter is
\* no content source, and subtitles are disabled or the event comes from
\* post-processing.
C11_CompletedReturnsItem ==
    (/\ call.op \in ProcessCalls
     /\ call.st = "Completed"
     /\ call.emitted_by \notin source_services
     /\ call.op = "process_event" => (~call.env.subliminal \/ call.emitted_by = "PostProcessing"))
        => (~call.result.raised /\ call.result.updated = call.item
              /\ call.result.next_service = "None" /\ call.result.items = <<>>)

\* C12: for an Indexed item of which the library holds no copy, emitted by a
\* service that is not a content source, the next service is Scraping, the
\* item is the one item to submit and the updated item is the item.
C12_IndexedSubmitsItem ==
    (call.op \in ProcessCalls /\ call.st = "Indexed" /\ ~call.item.streams
        /\ call.existing = NoneItem /\ call.emitted_by \notin source_services) =>
        (~call.result.raised /\ call.result.next_service = "Scraping"
            /\ call.result.items = <<call.item>> /\ call.result.updated = call.item)

----------------------------------------------------------------------------
(* The services that work on the library (src/backend): Scraping, the
   Real-Debrid downloader, the Symlinker and the library updater.

   media holds the attributes of the items, blacklisted and downloaded are
   the two sets of the hash cache, links holds the episodes whose
   destination path is a valid symlink into rclone_path, and ran records the
   last run.  What a run learns from outside (the streams found, the
   provider's answer, the files on the mount) is chosen with the run. *)

\* the file of a container that parses to the episode
FileOf(e) == IF e = "e1" THEN "Show.S01E01.mkv" ELSE "Show.S01E02.mkv"

Files == {FileOf(e) : e \in EpisodeIds}

\* the state of an episode (MediaItem._determine_state)
EpisodeState(m) ==
    determine_state([key |-> FALSE, update_folder |-> m.update_folder, symlinked |-> m.symlinked,
                     file |-> m.file # "None", folder |-> m.folder, streams |-> m.streams # {},
                     title |-> TRUE, imdb_id |-> TRUE, requested_by |-> TRUE])

\* the season as a MediaItem with its episodes
SeasonItem(md) ==
    LET attrs(m) == [key |-> FALSE, symlinked |-> m.symlinked, file |-> m.file # "None",
                     folder |-> m.folder, streams |-> m.streams # {}, title |-> TRUE,
                     imdb_id |-> TRUE, requested_by |-> TRUE]
        upd(m) == IF m.update_folder = "updated" THEN "updated" ELSE "None"
    IN  Item("season", attrs(md["season"]), upd(md["season"]),
             <<Item("episode", attrs(md["e1"]), upd(md["e1"]), <<>>),
               Item("episode", attrs(md["e2"]), upd(md["e2"]), <<>>)>>)

ItemState(md, i) ==
    IF i = "season" THEN backend_Season_determine_state(SeasonItem(md)) ELSE EpisodeState(md[i])

\* Scraping.run: the scrapers add the streams they find, scraped_times grows
Scraping_run(i) ==
    /\ media[i].scraped_times < MaxScraped
    /\ \E found \in SUBSET Hashes :
         media' = [media EXCEPT ![i].streams = @ \cup found, ![i].scraped_times = @ + 1]
    /\ ran' = [op |-> "Scraping", item |-> i]
    /\ UNCHANGED <<busvars, evars, call, cvars, tvars, lvars, blacklisted, downloaded, links>>

\* reset_item
reset_item(md, i) ==
    [md EXCEPT ![i].file = "None", ![i].folder = FALSE, ![i].streams = {},
               ![i].active_stream = NoStream, ![i].symlinked_times = 0, ![i].scraped_times = 0]

\* get_infohash: the hash of the item, for an episode else that of its season
get_infohash(md, i) ==
    IF md[i].active_stream.hash = "None" /\ i \in EpisodeIds
    THEN md["season"].active_stream.hash
    ELSE md[i].active_stream.hash

\* hash_cache.blacklist
blacklist(bl, h) == bl \cup {h}

\* blacklist_item, on the pair of the library and the blacklist
blacklist_item(s, i) ==
    LET infohash == get_infohash(s.media, i) IN
    [media |-> reset_item(s.media, i),
     blacklisted |-> IF infohash # "None" THEN blacklist(s.blacklisted, infohash) ELSE s.blacklisted]

\* Debrid._is_wanted_episode / _is_wanted_season: the episodes a container
\* has a file for, among the needed ones
needed_episodes(md, i) ==
    IF i = "season"
    THEN {e \in EpisodeIds : EpisodeState(md[e]) \in {"Indexed", "Scraped", "Unknown", "Failed"}}
    ELSE {i}

matched_files(md, i, container) == {e \in needed_episodes(md, i) : FileOf(e) \in container}

is_wanted(md, i, container) ==
    LET needed == needed_episodes(md, i)
        matched == matched_files(md, i, container)
    IN  IF i = "season"
        THEN matched # {} /\ (needed = matched \/ Cardinality(matched) >= Cardinality(needed) \div 2)
        ELSE matched # {}

\* the attributes an accepted container sets, and the new active stream
process_providers(md, i, h, container) ==
    LET name == md[i].active_stream.name
        matched == matched_files(md, i, container)
    IN  [e \in ItemIds |->
            LET m1 == IF e \in matched THEN [md[e] EXCEPT !.folder = name, !.file = FileOf(e)] ELSE md[e]
            IN  IF e = i THEN [m1 EXCEPT !.active_stream = [hash |-> h, name |-> FALSE]] ELSE m1]

\* Debrid.set_active_files; info: get_torrent_info answers
set_active_files(md, i, info) ==
    IF ~info THEN md
    ELSE LET md1 == [md EXCEPT ![i].active_stream.name = TRUE, ![i].folder = TRUE]
         IN  IF i = "season"
             THEN [e \in ItemIds |->
                     IF e \in EpisodeIds /\ md1[e].file # "None" /\ ~md1[e].folder
                     THEN [md1[e] EXCEPT !.folder = TRUE] ELSE md1[e]]
             ELSE md1

\* Debrid.run.  The availability check blacklists the hashes in rejected;
\* it finds no wanted stream (h = "None") or accepts the container of h.
\* Then _is_downloaded (dl: the torrent is absent from the account, its
\* info cannot be read, it does not match, or it is there) and, when that
\* fails, _download_item (magnet: add_magnet returns a request id; without
\* one get_torrent_info answers nothing).
Debrid_run(i) ==
    /\ ~(media[i].file # "None" /\ media[i].folder)
    /\ media[i].streams # {}
    /\ LET open == media[i].streams \ blacklisted IN
       \E h \in open \cup {"None"} : \E rejected \in SUBSET (open \ {h}) :
         IF h = "None"
         THEN /\ rejected = open
              /\ media' = [media EXCEPT ![i].streams = {}]
              /\ blacklisted' = blacklisted \cup rejected
              /\ downloaded' = downloaded
              /\ ran' = [op |-> "Debrid", item |-> i, yielded |-> FALSE]
         ELSE \E container \in SUBSET Files, dl \in {"absent", "noinfo", "mismatch", "ok"},
                 magnet \in BOOLEAN, info \in BOOLEAN :
              /\ is_wanted(media, i, container)
              /\ dl = "ok" => magnet
              /\ ~magnet => ~info
              /\ media' = set_active_files(process_providers(media, i, h, container), i, info)
              /\ blacklisted' = IF dl \in {"noinfo", "mismatch"}
                                 THEN blacklist(blacklisted \cup rejected, h)
                                 ELSE blacklisted \cup rejected
              /\ downloaded' = downloaded \cup {h}
              /\ ran' = [op |-> "Debrid", item |-> i, yielded |-> TRUE,
                         needed |-> needed_episodes(media, i), container |-> container,
                         hash |-> h, dl |-> dl, magnet |-> magnet]
    /\ UNCHANGED <<busvars, evars, call, cvars, tvars, lvars, links>>

\* Symlinker.should_submit of an episode, as process_event calls it for the
\* episodes of a Downloaded season and for a Downloaded episode.  visible:
\* the file is found on the mount (at once, while waiting, or by the search);
\* timeout: wait_for_file ran its 90 seconds without finding the file;
\* times: symlinked_times at the call; result: the value returned.
Symlinker_should_submit(i) ==
    /\ i \in EpisodeIds
    /\ "Downloaded" \in {ItemState(media, i), ItemState(media, "season")}
    /\ \E visible \in BOOLEAN :
         LET s == [media |-> media, blacklisted |-> blacklisted]
             m == media[i]
             bumped == [s EXCEPT !.media[i].symlinked_times = @ + 1]
             found(t) == [t EXCEPT !.media[i].folder = TRUE]
             r == IF m.file = "None" \/ ~m.folder THEN blacklist_item(s, i)
                  ELSE IF m.symlinked_times < 3
                  THEN (IF visible THEN found(s) ELSE blacklist_item(s, i))
                  ELSE (IF visible THEN found(bumped) ELSE blacklist_item(bumped, i))
         IN  /\ (m.file # "None" /\ m.folder /\ m.symlinked_times >= 3) => m.symlinked_times < MaxSymlinked
             /\ media' = r.media
             /\ blacklisted' = r.blacklisted
             /\ ran' = [op |-> "should_submit", item |-> i,
                        timeout |-> m.file # "None" /\ m.folder /\ m.symlinked_times < 3 /\ ~visible,
                        times |-> m.symlinked_times,
                        result |-> m.file # "None" /\ m.folder /\ visible]
    /\ UNCHANGED <<busvars, evars, call, cvars, tvars, lvars, downloaded, links>>

\* Symlinker.run of an episode, with Symlinker._symlink, for the episodes
\* process_event submits: a Downloaded episode, or an episode of a Downloaded
\* season (linked already or not).  out: the source file is missing;
\* os.symlink raises; the link is made and valid; the destination exists
\* already and is no valid link; _symlink is not called.
Symlinker_run(i) ==
    /\ i \in EpisodeIds
    /\ "Downloaded" \in {ItemState(media, i), ItemState(media, "season")}
    /\ media[i].symlinked_times + 2 <= MaxSymlinked
    /\ \E out \in {"nosource", "oserror", "linked", "invalid", "skipped"} :
         LET m == IF out = "skipped" THEN media[i]
                  ELSE [media[i] EXCEPT !.update_folder = "folder"]
             linked == [m EXCEPT !.symlinked = TRUE, !.symlinked_times = @ + 1]
             \* _symlink
             m1 == IF out \in {"linked", "invalid"} THEN linked ELSE m
             \* run: item.set("symlinked", True) and symlinked_times + 1
             m2 == [m1 EXCEPT !.symlinked = TRUE, !.symlinked_times = @ + 1]
         IN  /\ out = "skipped" <=> (media[i].symlinked \/ media[i].file = "None" \/ ~media[i].folder)
             /\ media' = [media EXCEPT ![i] = m2]
             /\ links' = IF out = "linked" THEN links \cup {i} ELSE links
             /\ ran' = [op |-> "Symlinker", item |-> i, out |-> out]
    /\ UNCHANGED <<busvars, evars, call, cvars, tvars, lvars, blacklisted, downloaded>>

\* the updater: a symlinked episode is refreshed in the media server
Updater_run(i) ==
    /\ i \in EpisodeIds
    /\ ItemState(media, i) = "Symlinked"
    /\ media[i].update_folder # "updated"
    /\ media["season"].update_folder # "updated"
    /\ media' = [media EXCEPT ![i].update_folder = "updated"]
    /\ ran' = [op |-> "Updater", item |-> i]
    /\ UNCHANGED <<busvars, evars, call, cvars, tvars, lvars, blacklisted, downloaded, links>>

NextServices ==
    \E i \in ItemIds :
        \/ Scraping_run(i)
        \/ Debrid_run(i)
        \/ Symlinker_should_submit(i)
        \/ Symlinker_run(i)
        \/ Updater_run(i)

SpecServices == Init /\ [][NextServices]_vars

\* C16: after any sequence of runs of the downloader, the symlinker (with
\* blacklist_item and reset_item) and the updater, an episode whose
\* symlinked is true has its file and its folder set.
C16_SymlinkedHasFile ==
    \A e \in EpisodeIds : media[e].symlinked => (media[e].file # "None" /\ media[e].folder)

\* C17: no step of a service decreases the scraped_times or the
\* symlinked_times of an item.
C17_TimesNeverDecrease ==
    [][\A i \in ItemIds : /\ media'[i].scraped_times >= media[i].scraped_times
                          /\ media'[i].symlinked_times >= media[i].symlinked_times]_vars

\* C18: the hash of the active stream of an item is never a blacklisted hash.
C18_ActiveNotBlacklisted ==
    \A i \in ItemIds : media[i].active_stream.hash \notin blacklisted

\* C19: when the downloader yields a season, every episode that was needed
\* before the run has its file bound to a file of the chosen container.
C19_SeasonDownloadBindsNeeded ==
    (ran.op = "Debrid" /\ ran.item = "season" /\ ran.yielded) =>
        \A e \in ran.needed : media[e].file \in ran.container

\* C20: an episode whose symlinked is true has a valid symlink into
\* rclone_path at its destination; a run of the symlinker whose source file
\* is missing or whose link creation fails leaves symlinked unset.
C20_SymlinkedHasLink ==
    \A e \in EpisodeIds : media[e].symlinked => e \in links

\* C21: a run of the symlinker on a Downloaded episode that creates a valid
\* link increases symlinked_times by exactly one.
C21_SymlinkCountsOnce ==
    [][(ran'.op = "Symlinker" /\ ran'.out = "linked") =>
           media'[ran'.item].symlinked_times = media[ran'.item].symlinked_times + 1]_vars

\* C30: process_event has no side effect: the call it makes of
\* Symlinker.should_submit for a Downloaded item changes no item of the
\* library and leaves the hash cache as it was.
C30_ProcessEventIsPure ==
    [][ran'.op = "should_submit" => (media' = media /\ blacklisted' = blacklisted)]_vars

\* C34: when the download of the selected hash fails (add_magnet returns no
\* request id, or the torrent found in the account does not hold the files
\* expected), the run of the downloader ends with the hash blacklisted and
\* the streams of the item empty.
C34_FailedDownloadResets ==
    (ran.op = "Debrid" /\ ran.yielded /\ (~ran.magnet \/ ran.dl = "mismatch")) =>
        (ran.hash \in blacklisted /\ media[ran.item].streams = {})

\* C36: when the wait for the source file times out, the item has its file,
\* folder, streams, active stream, symlinked_times and scraped_times reset,
\* the infohash it had before is blacklisted, and its state is Indexed or
\* earlier.
C36_TimeoutResets ==
    [][(ran'.op = "should_submit" /\ ran'.timeout) =>
           LET i == ran'.item IN
           /\ media'[i].file = "None" /\ ~media'[i].folder /\ media'[i].streams = {}
           /\ media'[i].active_stream = NoStream
           /\ media'[i].symlinked_times = 0 /\ media'[i].scraped_times = 0
           /\ get_infohash(media, i) # "None" => get_infohash(media, i) \in blacklisted'
           /\ ItemState(media', i) \in {"Indexed", "Requested", "Unknown"}]_vars

\* C37: when should_submit is called for an episode that has been symlinked
\* three times or more and is not Completed, the item is blacklisted and
\* reset (its file, folder and streams are cleared, its prior infohash is on
\* the blacklist) and should_submit returns false.
C37_ThirdAttemptBlacklists ==
    [][(ran'.op = "should_submit" /\ ran'.times >= 3 /\ ItemState(media, ran'.item) # "Completed") =>
           LET i == ran'.item IN
           /\ ~ran'.result
           /\ media'[i].file = "None" /\ ~media'[i].folder /\ media'[i].streams = {}
           /\ media'[i].symlinked_times = 0
           /\ get_infohash(media, i) # "None" => get_infohash(media, i) \in blacklisted']_vars

----------------------------------------------------------------------------
(* The store of media items (MediaItemContainer) and the children of a show.

   tree is the list of seasons of the one show, each season with its number
   and its list of episodes; store holds the ids in the dictionaries _items,
   _shows, _seasons and _episodes; sop records the last operation. *)

SeasonNumbers == 1..MaxSeasons

EpisodeNumbers == 1..MaxEpisodes

\* ItemId: the number of the item under the id of its parent; an item
\* without parent has parent "None"
ItemId(parent, season, episode) == [parent |-> parent, season |-> season, episode |-> episode]

ShowId == ItemId("tt1", 0, 0)

SeasonId(n) == ItemId("tt1", n, 0)

EpisodeId(n, k) == ItemId("tt1", n, k)

\* sorted(children + [x], key = number); sorted is stable
AppendSorted(ch, x) ==
    LET k == Cardinality({j \in 1..Len(ch) : ch[j].number <= x.number})
    IN  SubSeq(ch, 1, k) \o <<x>> \o SubSeq(ch, k + 1, Len(ch))

Numbers(ch) == {ch[j].number : j \in 1..Len(ch)}

\* Season.add_episode, on the list of episodes of the season
add_episode(eps, e) == IF e.number \in Numbers(eps) THEN eps ELSE AppendSorted(eps, e)

\* Show.add_season of src/backend
backend_add_season(t, season) == AppendSorted(t, season)

\* Show.add_season of src/src
add_season(t, season) == IF season.number \in Numbers(t) THEN t ELSE AppendSorted(t, season)

\* Season.fill_in_missing_children; existing_episodes is read once
RECURSIVE Season_fill_in_missing_children(_, _, _)
Season_fill_in_missing_children(eps, existing, other) ==
    IF other = <<>> THEN eps
    ELSE Season_fill_in_missing_children(
             IF Head(other).number \notin existing THEN add_episode(eps, Head(other)) ELSE eps,
             existing, Tail(other))

\* Show.fill_in_missing_children of src/backend; existing_seasons is read once
RECURSIVE backend_Show_fill_in_missing_children(_, _, _)
backend_Show_fill_in_missing_children(t, existing, other) ==
    IF other = <<>> THEN t
    ELSE LET s == Head(other)
             first == CHOOSE j \in 1..Len(t) : t[j].number = s.number
                                               /\ \A l \in 1..(j - 1) : t[l].number # s.number
             t1 == IF s.number \notin existing THEN backend_add_season(t, s)
                   ELSE [t EXCEPT ![first].episodes =
                            Season_fill_in_missing_children(@, Numbers(@), s.episodes)]
         IN  backend_Show_fill_in_missing_children(t1, existing, Tail(other))

\* the ids of the children of the show and of a season, as the objects hold them
SeasonIdsOf(t) == {SeasonId(n) : n \in Numbers(t)}

EpisodeIdsOf(t, n) == {EpisodeId(n, e.number) : e \in UNION {Range(t[j].episodes) : j \in {l \in 1..Len(t) : t[l].number = n}}}

AllEpisodeIds(t) == UNION {EpisodeIdsOf(t, n) : n \in Numbers(t)}

\* the item and its descendants
TreeIds(t, id) ==
    IF id = ShowId THEN {ShowId} \cup SeasonIdsOf(t) \cup AllEpisodeIds(t)
    ELSE IF id.parent = "tt1" /\ id.episode = 0 THEN {id} \cup EpisodeIdsOf(t, id.season)
    ELSE {id}

\* MediaItemContainer.upsert: the container after the call, and whether the
\* call raised
upsert(c, t, id) ==
    LET c1 == [c EXCEPT !.items = @ \cup {id}] IN
    IF id.parent = "None" THEN [store |-> c1, raised |-> TRUE]
    ELSE IF id = ShowId
    THEN [store |-> [c1 EXCEPT !.shows = @ \cup {id},
                               !.items = @ \cup SeasonIdsOf(t) \cup AllEpisodeIds(t),
                               !.seasons = @ \cup SeasonIdsOf(t),
                               !.episodes = @ \cup AllEpisodeIds(t)],
          raised |-> FALSE]
    ELSE IF id.episode = 0
    THEN [store |-> [c1 EXCEPT !.seasons = @ \cup {id},
                               !.items = @ \cup EpisodeIdsOf(t, id.season),
                               !.episodes = @ \cup EpisodeIdsOf(t, id.season)],
          raised |-> ShowId \notin c1.items]
    ELSE [store |-> [c1 EXCEPT !.episodes = @ \cup {id}],
          raised |-> SeasonId(id.season) \notin c1.items]

\* MediaItemContainer.remove with _remove_item
remove(c, t, id) == [c EXCEPT !.items = @ \ TreeIds(t, id)]

\* the items a caller can hold: the show, its seasons and episodes, and a
\* season or an episode that has no parent
Attached(t) == TreeIds(t, ShowId)

Orphans == {ItemId("None", 1, 0), ItemId("None", 0, 1)}

NewEpisodes == {<<>>} \cup {<<[number |-> k]>> : k \in EpisodeNumbers}

call_backend_add_season ==
    /\ Len(tree) < MaxSeasons
    /\ \E n \in SeasonNumbers, eps \in NewEpisodes :
         tree' = backend_add_season(tree, [number |-> n, episodes |-> eps])
    /\ sop' = [op |-> "add_season"]
    /\ UNCHANGED <<busvars, evars, call, svars, tvars, lvars, store>>

call_add_season ==
    /\ \E n \in SeasonNumbers, eps \in NewEpisodes :
         tree' = add_season(tree, [number |-> n, episodes |-> eps])
    /\ sop' = [op |-> "add_season"]
    /\ UNCHANGED <<busvars, evars, call, svars, tvars, lvars, store>>

call_add_episode ==
    /\ \E j \in 1..Len(tree), k \in EpisodeNumbers :
         tree' = [tree EXCEPT ![j].episodes = add_episode(@, [number |-> k])]
    /\ sop' = [op |-> "add_episode"]
    /\ UNCHANGED <<busvars, evars, call, svars, tvars, lvars, store>>

\* the merge of the state transition: the freshly indexed show has its
\* seasons numbered apart
call_fill_in_missing_children ==
    /\ \E ns \in SUBSET SeasonNumbers, eps \in NewEpisodes :
         LET other == [j \in 1..Cardinality(ns) |->
                         [number |-> CHOOSE n \in ns : Cardinality({m \in ns : m < n}) = j - 1,
                          episodes |-> eps]]
         IN  /\ Len(tree) + Cardinality(ns \ Numbers(tree)) <= MaxSeasons
             /\ tree' = backend_Show_fill_in_missing_children(tree, Numbers(tree), other)
    /\ sop' = [op |-> "fill_in_missing_children"]
    /\ UNCHANGED <<busvars, evars, call, svars, tvars, lvars, store>>

call_upsert ==
    /\ \E id \in Attached(tree) \cup Orphans :
         LET r == upsert(store, tree, id)
         IN  /\ store' = r.store
             /\ sop' = [op |-> "upsert"]
    /\ UNCHANGED <<busvars, evars, call, svars, tvars, lvars, tree>>

call_remove ==
    /\ \E id \in Attached(tree) :
         /\ store' = remove(store, tree, id)
         /\ sop' = [op |-> "remove"]
    /\ UNCHANGED <<busvars, evars, call, svars, tvars, lvars, tree>>

\* Symlinker.on_symlink_deleted for the symlink of an episode the store holds
on_symlink_deleted ==
    /\ \E id \in AllEpisodeIds(tree) \cap store.items :
         /\ store' = remove(store, tree, id)
         /\ sop' = [op |-> "on_symlink_deleted"]
    /\ UNCHANGED <<busvars, evars, call, svars, tvars, lvars, tree>>

\* the operations on the children of the show
NextChildren ==
    \/ call_backend_add_season
    \/ call_add_season
    \/ call_add_episode
    \/ call_fill_in_missing_children

SpecChildren == Init /\ [][NextChildren]_vars

\* the operations on the store; the show is built before it is first stored
NextStore ==
    \/ (store = EmptyContainer /\ NextChildren)
    \/ call_upsert
    \/ call_remove
    \/ on_symlink_deleted

SpecStore == Init /\ [][NextStore]_vars

\* C22: after remove(item), and after the removal a symlink deletion
\* triggers, the item and its descendants are in none of the dictionaries
\* of the store and the item is no child of its parent any more (for an
\* item the store held).
C22_RemovedIsGone ==
    [][\A id \in Attached(tree) :
          (sop'.op \in {"remove", "on_symlink_deleted"} /\ id \in store.items
              /\ store' = remove(store, tree, id)) =>
              /\ TreeIds(tree, id) \cap (store'.items \cup store'.shows \cup store'.seasons \cup store'.episodes) = {}
              /\ id # ShowId => id \notin Attached(tree')]_vars

\* C23: upsert of a season or an episode without parent raises and leaves
\* the store as it was.
C23_OrphanUpsertRejected ==
    [][\A id \in Orphans :
          (sop'.op = "upsert" /\ store' = upsert(store, tree, id).store) =>
              (upsert(store, tree, id).raised /\ store' = store)]_vars

\* C24: no show holds two seasons of one number and no season two episodes
\* of one number.
C24_NumbersUnique ==
    /\ Cardinality(Numbers(tree)) = Len(tree)
    /\ \A j \in 1..Len(tree) : Cardinality(Numbers(tree[j].episodes)) = Len(tree[j].episodes)

\* the service a state of the pipeline leads to; src/backend names its
\* downloader Debrid and its updater PlexUpdater
PipelineService(st) ==
    CASE st = "Scraped" -> {"Downloader", "Debrid"}
      [] st = "Downloaded" -> {"Symlinker"}
      [] st = "Symlinked" -> {"Updater", "PlexUpdater"}

\* C28: for an item that no content source emitted, in state Scraped,
\* Downloaded or Symlinked, process_event returns the item as updated, the
\* downloader, the symlinker or the updater as next service, and the item
\* alone as the items to submit.
C28_PipelineRows ==
    (/\ call.op \in ProcessCalls
     /\ call.emitted_by \notin source_services
     /\ call.st \in {"Scraped", "Downloaded", "Symlinked"}) =>
        /\ ~call.result.raised
        /\ call.result.updated = call.item
        /\ call.result.next_service \in PipelineService(call.st)
        /\ call.result.items = <<call.item>>

\* the item an event of a content source stands for: the show of a season
Indexable(i) == IF i.type = "season" THEN Parent(i) ELSE i

\* C29: for an event that a content source emitted, and for an item in state
\* Requested, process_event returns the item as updated, TraktIndexer as
\* next service and the item alone as the items to submit, the item being
\* the parent show when it is a season.
C29_RequestedRow ==
    (/\ call.op \in ProcessCalls
     /\ (call.emitted_by \in source_services \/ call.st = "Requested")) =>
        /\ ~call.result.raised
        /\ call.result.updated = Indexable(call.item)
        /\ call.result.next_service = "TraktIndexer"
        /\ call.result.items = <<Indexable(call.item)>>

\* the state of an item as the version of process_event that was called reads it
CallState(i) == IF call.op = "process_event" THEN state(i) ELSE backend_state(i)

\* C31: for an item in state PartiallyCompleted or Unknown that no content
\* source emitted, process_event returns no next service, and the items to
\* submit hold no item whose state is Completed and, for a show, no episode
\* of a Completed season.
C31_RecurseRow ==
    (/\ call.op \in ProcessCalls
     /\ call.emitted_by \notin source_services
     /\ call.st \in {"PartiallyCompleted", "Unknown"}) =>
        /\ ~call.result.raised
        /\ call.result.next_service = "None"
        /\ \A k \in 1..Len(call.result.items) :
              /\ CallState(call.result.items[k]) # "Completed"
              /\ call.item.type = "show" =>
                    \A j \in 1..Len(call.item.children) :
                        CallState(call.item.children[j]) = "Completed" =>
                            call.result.items[k] \notin Range(call.item.children[j].children)

----------------------------------------------------------------------------
(* The file matchers of the downloaders.

   A file of a container is given by what the filters read of it: its size
   in bytes, whether its extension is a wanted format, and what the parser
   finds in its name (the type, the season numbers, the episode numbers). *)

BYTES_PER_MB == 1000000

\* the least size of a movie file the Real-Debrid matcher takes, exclusive
DebridMovieFloor == 200000000

\* Debrid._is_wanted_episode (realdebrid.py), for a container of one file
Debrid_is_wanted_episode(file, number, parent_number, one_season) ==
    /\ file.wanted_format
    /\ file.episode # {}
    /\ 0 \notin file.season
    /\ \/ (number \in file.episode /\ parent_number \in file.season)
       \/ (one_season /\ number \in file.episode)

\* AllDebridDownloader._is_wanted_episode (alldebrid.py)
AllDebrid_is_wanted_episode(file, number, parent_number, one_season) ==
    /\ file.wanted_format
    /\ number \in file.episode
    /\ (parent_number \in file.season \/ one_season)

\* _validate_filesize (services/downloaders/shared.py), the settings being valid
validate_filesize(filesize, min_mb, max_mb) ==
    LET min_size == IF min_mb = -1 THEN 0 ELSE min_mb * BYTES_PER_MB
    IN  min_size <= filesize /\ (max_mb = -1 \/ filesize <= max_mb * BYTES_PER_MB)

\* AllDebridDownloader._is_wanted_movie
AllDebrid_is_wanted_movie(file, min_mb, max_mb) ==
    /\ ~(\/ file.size < min_mb * BYTES_PER_MB
          \/ (max_mb # -1 /\ file.size > max_mb * BYTES_PER_MB)
          \/ ~file.wanted_format)
    /\ file.type = "movie"

\* Debrid._is_wanted_movie (realdebrid.py), for a container of one file
Debrid_is_wanted_movie(file) ==
    file.size > DebridMovieFloor /\ file.wanted_format /\ file.type = "movie"

\* the season tags and the episode numbers a file name can carry
SeasonTags == SUBSET (0..MaxSeasons)

EpisodeTags == SUBSET EpisodeNumbers

\* the settings movie_filesize_mb_min and movie_filesize_mb_max
MinSettings == {-1, 100, 200}

MaxSettings == {-1, 300}

\* file sizes at and next to the limits
FileSizes == {mb * BYTES_PER_MB + d : mb \in {100, 200, 300}, d \in {-1, 0, 1}}

call_is_wanted_episode ==
    /\ call = NoCall
    /\ \E fmt \in BOOLEAN, eps \in EpisodeTags, tags \in SeasonTags, number \in EpisodeNumbers,
          parent \in SeasonNumbers, one \in BOOLEAN, svc \in {"Debrid", "AllDebrid"} :
         LET file == [wanted_format |-> fmt, episode |-> eps, season |-> tags] IN
         /\ one => parent = 1
         /\ call' = [op |-> "is_wanted_episode", service |-> svc, file |-> file, number |-> number,
                      parent_number |-> parent, one_season |-> one,
                      result |-> IF svc = "Debrid"
                                 THEN Debrid_is_wanted_episode(file, number, parent, one)
                                 ELSE AllDebrid_is_wanted_episode(file, number, parent, one)]
    /\ UNCHANGED <<busvars, evars, svars, cvars, tvars, lvars>>

call_is_wanted_movie ==
    /\ call = NoCall
    /\ \E fmt \in BOOLEAN, type \in {"movie", "show"}, size \in FileSizes, min_mb \in MinSettings,
          max_mb \in MaxSettings, svc \in {"Debrid", "AllDebrid", "shared"} :
         LET file == [wanted_format |-> fmt, type |-> type, size |-> size] IN
         call' = [op |-> "is_wanted_movie", service |-> svc, file |-> file,
                  min_mb |-> min_mb, max_mb |-> max_mb,
                  result |-> IF svc = "Debrid" THEN Debrid_is_wanted_movie(file)
                             ELSE IF svc = "AllDebrid" THEN AllDebrid_is_wanted_movie(file, min_mb, max_mb)
                             ELSE validate_filesize(size, min_mb, max_mb)]
    /\ UNCHANGED <<busvars, evars, svars, cvars, tvars, lvars>>

\* the files a container of a season pack can hold: of a wanted format and
\* size or not, with at most one season tag
PackFiles ==
    [wanted_format : BOOLEAN, episode : EpisodeTags, season : {tags \in SeasonTags : Cardinality(tags) <= 1}]

MaxFiles == 2

\* matched_files of Debrid._is_wanted_season: the needed episodes that a
\* file of the container names
Debrid_matched_files(files, needed, season_num, one_season) ==
    {ep \in needed : \E f \in files :
        /\ f.wanted_format
        /\ f.episode # {} /\ 0 \notin f.season
        /\ (season_num \in f.season \/ one_season)
        /\ ep \in f.episode}

\* Debrid._is_wanted_season (realdebrid.py)
Debrid_is_wanted_season(files, needed, season_num, one_season) ==
    LET matched == Debrid_matched_files(files, needed, season_num, one_season) IN
    /\ \E f \in files : f.wanted_format
    /\ matched # {}
    /\ (needed = matched \/ Cardinality(matched) >= Cardinality(needed) \div 2)

\* matched_files of AllDebridDownloader._is_wanted_season
AllDebrid_matched_files(files, needed, season_num, one_season) ==
    {ep \in needed : \E f \in files :
        /\ f.wanted_format
        /\ (season_num \in f.season \/ one_season)
        /\ ep \in f.episode}

\* AllDebridDownloader._is_wanted_season (alldebrid.py)
AllDebrid_is_wanted_season(files, needed, season_num, one_season) ==
    LET matched == AllDebrid_matched_files(files, needed, season_num, one_season) IN
    /\ \E f \in files : f.wanted_format
    /\ matched # {}
    /\ needed = matched

call_is_wanted_season ==
    /\ call = NoCall
    /\ \E fs \in [1..MaxFiles -> PackFiles], n \in 0..MaxFiles, needed \in SUBSET EpisodeNumbers,
          season_num \in SeasonNumbers, one \in BOOLEAN, svc \in {"Debrid", "AllDebrid"} :
         LET files == {fs[k] : k \in 1..n} IN
         /\ one => season_num = 1
         /\ call' = [op |-> "is_wanted_season", service |-> svc, files |-> files, needed |-> needed,
                      season_num |-> season_num, one_season |-> one,
                      matched |-> IF svc = "Debrid"
                                  THEN Debrid_matched_files(files, needed, season_num, one)
                                  ELSE AllDebrid_matched_files(files, needed, season_num, one),
                      result |-> IF svc = "Debrid"
                                 THEN Debrid_is_wanted_season(files, needed, season_num, one)
                                 ELSE AllDebrid_is_wanted_season(files, needed, season_num, one)]
    /\ UNCHANGED <<busvars, evars, svars, cvars, tvars, lvars>>

NextMatch == call_is_wanted_episode \/ call_is_wanted_movie \/ call_is_wanted_season

SpecMatch == Init /\ [][NextMatch]_vars

\* C25: the episode matcher accepts a file of a wanted format exactly when
\* the file names the episode number and either names the season number or
\* the show has one season and the file carries no season tag.
C25_EpisodeMatcher ==
    (call.op = "is_wanted_episode" /\ call.file.wanted_format) =>
        (call.result <=>
            /\ call.number \in call.file.episode
            /\ \/ call.parent_number \in call.file.season
               \/ (call.one_season /\ call.file.season = {}))

\* C26: a movie file that passes the other filters and whose size is
\* exactly movie_filesize_min_mb in bytes is accepted, and one that is one
\* byte smaller is rejected.
C26_MovieSizeInclusive ==
    (/\ call.op = "is_wanted_movie"
     /\ call.min_mb # -1
     /\ call.file.wanted_format /\ call.file.type = "movie"
     /\ (call.max_mb = -1 \/ call.file.size <= call.max_mb * BYTES_PER_MB)) =>
        /\ call.file.size = call.min_mb * BYTES_PER_MB => call.result
        /\ call.file.size = call.min_mb * BYTES_PER_MB - 1 => ~call.result

\* C33: the season matcher of Real-Debrid accepts a container only if every
\* needed episode has a matched file; the season matcher of AllDebrid
\* accepts a container when half the needed episodes at least are matched.
C33_SeasonMatcher ==
    (call.op = "is_wanted_season" /\ call.needed # {}) =>
        /\ (call.service = "Debrid" /\ call.result) => call.needed \subseteq call.matched
        /\ (call.service = "AllDebrid" /\ call.matched # {}
                /\ 2 * Cardinality(call.matched) >= Cardinality(call.needed)) => call.result

----------------------------------------------------------------------------
(* The scraping of one item over time.

   The item is a released movie in state Indexed, held by the library.  The
   retry sweep offers it to the bus with add_event; the main loop pops the
   event, asks process_event, and submits a job of Scraping for what
   process_event returns; a worker of the Scraping pool runs Scraping.run,
   which tests _can_we_scrape, calls the scrapers (network calls, during
   which the other threads run) and then stamps scraped_at and
   scraped_times.  The clock is in seconds. *)

MaxSeconds == 6

MaxClock == 3606

\* the bound on scraped_times
MaxScrapes == 3

\* the settings scraping.after_2, after_5 and after_10, in hours
after_2 == 1

after_5 == 2

after_10 == 24

\* Scraping.should_submit: the threshold for the item's scraped_times has
\* passed since scraped_at
Scraping_should_submit(s, t) ==
    LET scrape_time == IF s.times >= 2 /\ s.times <= 5 THEN after_2 * 60 * 60
                       ELSE IF s.times > 5 /\ s.times <= 10 THEN after_5 * 60 * 60
                       ELSE IF s.times > 10 THEN after_10 * 60 * 60
                       ELSE 5
    IN  s.at = -1 \/ t - s.at > scrape_time

\* the threshold in force for a value of scraped_times
ScrapeThreshold(times) ==
    IF times >= 2 /\ times <= 5 THEN after_2 * 60 * 60
    ELSE IF times > 5 /\ times <= 10 THEN after_5 * 60 * 60
    ELSE IF times > 10 THEN after_10 * 60 * 60
    ELSE 5

\* the library's copy of the item, as process_event reads it
ScrapedItem == Item("movie", [AttrsAt("Indexed") EXCEPT !.streams = scraped.streams], "None", <<>>)

\* what process_event reads beside the item: the item is indexed and
\* released, Scraping.can_we_scrape is the test of the threshold
ScrapeEnv ==
    [index_due |-> FALSE, indexed_at |-> TRUE, can_scrape |-> Scraping_should_submit(scraped, now),
     subliminal |-> FALSE, sub_due |-> FALSE]

\* add_event, for the item: admitted when the item is neither queued nor running
scrape_add_event(l, emitted_by) ==
    IF l.queued = <<>> /\ l.running = 0
    THEN [l EXCEPT !.queued = Append(@, emitted_by)]
    ELSE l

\* the clock advances by a second, five seconds or the hours of after_2
Scrape_tick ==
    /\ \E d \in {1, 5, after_2 * 60 * 60} :
         /\ now + d <= MaxClock
         /\ d < 60 * 60 => (now % (60 * 60)) + d <= MaxSeconds
         /\ now' = now + d
    /\ UNCHANGED <<queued, arrival, running, futures, fut, mpc, mev, msvc, mtodo, apc, aev,
                   wfid, citem, cgone, ncancel, wcancel, last, call, svars, cvars, tvars, lvars, evars>>

\* the retry sweep: add_event(Event("RetryLibrary", item))
Scrape_retry ==
    /\ loop' = scrape_add_event(loop, "RetryLibrary")
    /\ loop' # loop
    /\ UNCHANGED <<busvars, evars, call, svars, cvars, lvars, scraped, workers, began>>

\* the main loop: event = self.em.next()
Scrape_next ==
    /\ loop.popped = "None"
    /\ loop.queued # <<>>
    /\ loop' = [loop EXCEPT !.popped = Head(loop.queued), !.queued = Tail(@)]
    /\ UNCHANGED <<busvars, evars, call, svars, cvars, lvars, scraped, workers, began>>

\* the main loop from add_event_to_running(event) to the end of the pass:
\* process_event, remove_event_from_running, and for an item to submit
\* add_event_to_running and submit_job
Scrape_dispatch ==
    /\ loop.popped # "None"
    /\ LET r == process_event(ScrapedItem, loop.popped, ScrapedItem, ScrapeEnv) IN
         IF r.next_service = "Scraping" /\ r.items # <<>>
         THEN /\ loop.running < MaxRunning
              /\ loop' = [loop EXCEPT !.popped = "None", !.running = @ + 1, !.waiting = @ + 1]
         ELSE loop' = [loop EXCEPT !.popped = "None"]
    /\ UNCHANGED <<busvars, evars, call, svars, cvars, lvars, scraped, workers, began>>

\* Scraping.run up to the calls of the scrapers: a worker takes a job; when
\* _can_we_scrape fails the run ends and yields nothing
Scraping_run_begin(w) ==
    /\ workers[w] = "idle"
    /\ loop.waiting > 0
    /\ scraped.times < MaxScrapes
    /\ loop' = [loop EXCEPT !.waiting = @ - 1]
    /\ IF Scraping_should_submit(scraped, now)
       THEN workers' = [workers EXCEPT ![w] = "scraping"] /\ began' = now
       ELSE UNCHANGED <<workers, began>>
    /\ UNCHANGED <<busvars, evars, call, svars, cvars, lvars, scraped>>

\* Scraping.run from the return of the scrapers, and _process_future for the
\* item it yields: remove_item_from_running, add_event
Scraping_run_end(w) ==
    /\ workers[w] = "scraping"
    /\ \E found \in BOOLEAN :
         scraped' = [at |-> now, times |-> scraped.times + 1, streams |-> scraped.streams \/ found]
    /\ workers' = [workers EXCEPT ![w] = "idle"]
    /\ loop' = scrape_add_event([loop EXCEPT !.running = IF @ > 0 THEN @ - 1 ELSE 0], "Scraping")
    /\ UNCHANGED <<busvars, evars, call, svars, cvars, lvars, began>>

NextScrape ==
    \/ Scrape_tick
    \/ Scrape_retry
    \/ Scrape_next
    \/ Scrape_dispatch
    \/ \E w \in Workers : Scraping_run_begin(w) \/ Scraping_run_end(w)

SpecScrape == Init /\ [][NextScrape]_vars

\* C27: a run of Scraping that performs scraping begins more than the
\* threshold in force for the item's scraped_times after the run before it
\* that performed scraping.
C27_ScrapeThreshold ==
    [][(\E w \in Workers : workers[w] = "idle" /\ workers'[w] = "scraping") =>
           (began = -1 \/ now - began > ScrapeThreshold(scraped.times))]_vars

----------------------------------------------------------------------------
(* The test of the scrape threshold as a function of the item *)

\* Scraping._can_we_scrape; released is Scraping._is_released: aired_at is
\* set and in the past
Scraping_can_we_scrape(s, t, released) == released /\ Scraping_should_submit(s, t)

\* the greatest value of scraped_times of the calls
MaxTimes == 11

\* the seconds since the last scrape, at and next to each threshold
Elapsed ==
    {0, 5, 6} \cup {h * 60 * 60 + d : h \in {after_2, after_5, after_10}, d \in {0, 1}}

call_should_submit ==
    /\ call = NoCall
    /\ \E times \in 0..MaxTimes, e \in Elapsed, never \in BOOLEAN, released \in BOOLEAN,
          f \in {"should_submit", "can_we_scrape"} :
         LET s == [at |-> IF never THEN -1 ELSE 0, times |-> times] IN
         /\ never => (times = 0 /\ e = 0)
         /\ call' = [op |-> f, times |-> times, elapsed |-> e, never |-> never, released |-> released,
                      result |-> IF f = "should_submit" THEN Scraping_should_submit(s, e)
                                 ELSE Scraping_can_we_scrape(s, e, released)]
    /\ UNCHANGED <<busvars, evars, svars, cvars, tvars, lvars>>

NextThreshold == call_should_submit

SpecThreshold == Init /\ [][NextThreshold]_vars

\* the threshold of attempt n, in seconds
AttemptThreshold(n) ==
    IF n <= 2 THEN 5
    ELSE IF n <= 5 THEN after_2 * 60 * 60
    ELSE IF n <= 10 THEN after_5 * 60 * 60
    ELSE after_10 * 60 * 60

\* C35: the scrape test of an item is true if and only if the item has
\* aired and more than the threshold of the attempt has passed since its
\* last scrape, the attempt made at scraped_times = n - 1 being attempt n.
C35_AttemptThreshold ==
    call.op \in {"should_submit", "can_we_scrape"} =>
        (call.result <=>
            /\ call.released
            /\ (call.never \/ call.elapsed > AttemptThreshold(call.times + 1)))

----------------------------------------------------------------------------
(* The lock of the store (src/backend/program/media/container.py): threads
   call get_item, remove and upsert on a show with one season and one
   episode; every statement that reads or writes _items is a step *)

\* the order in which upsert writes the ids of a show into _items
UpsertOrder == <<"show", "season", "episode">>

\* the order in which remove_children deletes them
RemoveOrder == <<"episode", "season", "show">>

ShowTree == Range(UpsertOrder)

\* acquire_read, at the head of get_item
ReadWriteLock_acquire_read(t) ==
    /\ threads[t].pc = "idle"
    /\ lock.read_ready = "None"
    /\ lock' = [lock EXCEPT !.readers = @ + 1]
    /\ threads' = [threads EXCEPT ![t] = [IdleThread EXCEPT !.op = "get_item", !.pc = "read"]]
    /\ UNCHANGED <<busvars, evars, call, svars, cvars, tvars, stored>>

\* get_item looks into _items
Container_get_item(t) ==
    /\ threads[t].pc = "read"
    /\ threads' = [threads EXCEPT ![t].pc = "release_read", ![t].seen = stored]
    /\ UNCHANGED <<busvars, evars, call, svars, cvars, tvars, lock, stored>>

\* release_read, with notify_all when the last reader leaves
ReadWriteLock_release_read(t) ==
    /\ threads[t].pc = "release_read"
    /\ lock.read_ready = "None"
    /\ lock' = [lock EXCEPT !.readers = @ - 1]
    /\ threads' = [u \in Threads |->
                      IF u = t THEN IdleThread
                      ELSE IF lock.readers = 1 /\ threads[u].pc = "wait"
                      THEN [threads[u] EXCEPT !.pc = "acquire_write"]
                      ELSE threads[u]]
    /\ UNCHANGED <<busvars, evars, call, svars, cvars, tvars, stored>>

\* acquire_write, at the head of remove and after a wait: the mutex is taken
ReadWriteLock_acquire_write(t) ==
    /\ threads[t].pc \in {"idle", "acquire_write"}
    /\ lock.read_ready = "None"
    /\ lock' = [lock EXCEPT !.read_ready = t]
    /\ threads' = [threads EXCEPT ![t] = [IdleThread EXCEPT !.op = "remove", !.pc = "readers"]]
    /\ UNCHANGED <<busvars, evars, call, svars, cvars, tvars, stored>>

\* the loop of acquire_write: wait (which frees the mutex) while there are
\* readers, else enter remove_children
ReadWriteLock_wait(t) ==
    /\ threads[t].pc = "readers"
    /\ IF lock.readers > 0
       THEN /\ lock' = [lock EXCEPT !.read_ready = "None"]
            /\ threads' = [threads EXCEPT ![t].pc = "wait"]
       ELSE /\ threads' = [threads EXCEPT ![t].pc = "write", ![t].todo = RemoveOrder]
            /\ UNCHANGED lock
    /\ UNCHANGED <<busvars, evars, call, svars, cvars, tvars, stored>>

\* _remove_item of the next id
Container_remove_item(t) ==
    /\ threads[t].op = "remove" /\ threads[t].pc = "write"
    /\ threads[t].todo # <<>>
    /\ stored' = stored \ {Head(threads[t].todo)}
    /\ threads' = [threads EXCEPT ![t].todo = Tail(@)]
    /\ UNCHANGED <<busvars, evars, call, svars, cvars, tvars, lock>>

\* release_write, at the end of remove
ReadWriteLock_release_write(t) ==
    /\ threads[t].op = "remove" /\ threads[t].pc = "write"
    /\ threads[t].todo = <<>>
    /\ lock' = [lock EXCEPT !.read_ready = "None"]
    /\ threads' = [threads EXCEPT ![t] = IdleThread]
    /\ UNCHANGED <<busvars, evars, call, svars, cvars, tvars, stored>>

\* upsert is entered: it takes no lock
Container_upsert(t) ==
    /\ threads[t].pc = "idle"
    /\ threads' = [threads EXCEPT ![t] = [IdleThread EXCEPT !.op = "upsert", !.pc = "write",
                                                            !.todo = UpsertOrder]]
    /\ UNCHANGED <<busvars, evars, call, svars, cvars, tvars, lock, stored>>

\* upsert writes the next id into _items, and returns after the last
Container_upsert_item(t) ==
    /\ threads[t].op = "upsert" /\ threads[t].pc = "write"
    /\ stored' = stored \cup {Head(threads[t].todo)}
    /\ threads' = [threads EXCEPT ![t] = IF Len(threads[t].todo) = 1 THEN IdleThread
                                          ELSE [@ EXCEPT !.todo = Tail(@)]]
    /\ UNCHANGED <<busvars, evars, call, svars, cvars, tvars, lock>>

NextLock ==
    \E t \in Threads :
        \/ ReadWriteLock_acquire_read(t)
        \/ Container_get_item(t)
        \/ ReadWriteLock_release_read(t)
        \/ ReadWriteLock_acquire_write(t)
        \/ ReadWriteLock_wait(t)
        \/ Container_remove_item(t)
        \/ ReadWriteLock_release_write(t)
        \/ Container_upsert(t)
        \/ Container_upsert_item(t)

SpecLock == Init /\ [][NextLock]_vars

\* the thread has modified the tree and has not finished
PartWay(t) ==
    /\ threads[t].op \in {"upsert", "remove"} /\ threads[t].pc = "write"
    /\ Len(threads[t].todo) \in 1..(Len(UpsertOrder) - 1)

\* C38: no two threads are part-way through an upsert or a remove of the
\* tree at once, and no reader looks into the store while an upsert or a
\* remove is part-way (what a reader has seen is the whole tree or nothing).
C38_WritesIsolated ==
    /\ \A t, u \in Threads : (t # u /\ PartWay(t)) => ~PartWay(u)
    /\ \A t, u \in Threads : (threads[t].op = "get_item" /\ threads[t].pc = "read") => ~PartWay(u)
    /\ \A t \in Threads : threads[t].pc = "release_read" => threads[t].seen \in {{}, ShowTree}

----------------------------------------------------------------------------
(* The worker pools of the event bus and the stop of the orchestrator
   (src/src/utils/event_manager.py, src/src/program/program.py,
   src/src/main.py) *)

\* the most jobs that wait in one pool
MaxJobs == 1

\* max_workers of a pool when <SERVICE>_MAX_WORKERS is not set
DefaultMaxWorkers == 1

\* a service the main loop submits, and a service the scheduler submits
PipelineServices == {"Scraping"}

ScheduledServices == {"Overseerr"}

\* Program.start, lines 165-171: the thread Riven is started on run, the
\* scheduler is started and runs the job of the scheduled service at once
Program_start ==
    /\ program.scheduler = "None"
    /\ program' = [program EXCEPT !.scheduler = "running"]
    /\ loops' = [loops EXCEPT !["Riven"].pc = "while", !["Scheduler"].pc = "next"]
    /\ UNCHANGED <<busvars, call, svars, cvars, tvars, lvars, executors>>

\* Program.start, line 174, and main.py calling run on the main thread
Program_initialized ==
    /\ program.scheduler = "running" /\ ~program.initialized
    /\ program' = [program EXCEPT !.initialized = TRUE]
    /\ loops' = [loops EXCEPT !["Main"].pc = "while"]
    /\ UNCHANGED <<busvars, call, svars, cvars, tvars, lvars, executors>>

\* Program.run: the test of the while loop, and an event whose next service
\* is s is about to be submitted
Program_run(th) ==
    /\ th \in {"Main", "Riven"}
    /\ loops[th].pc = "while"
    /\ \E s \in PipelineServices :
         loops' = [loops EXCEPT ![th] = IF program.initialized
                                        THEN [pc |-> "find", service |-> s, pool |-> 0]
                                        ELSE [NoLoop EXCEPT !.pc = "exited"]]
    /\ UNCHANGED <<busvars, call, svars, cvars, tvars, lvars, program, executors>>

\* the scheduler runs the job of a scheduled service (max_instances = 1)
Scheduler_run ==
    /\ loops["Scheduler"].pc = "next"
    /\ program.scheduler = "running"
    /\ \E s \in ScheduledServices :
         loops' = [loops EXCEPT !["Scheduler"] = [pc |-> "find", service |-> s, pool |-> 0]]
    /\ UNCHANGED <<busvars, call, svars, cvars, tvars, lvars, program, executors>>

\* _find_or_create_executor, the loop over _executors
find_executor(th) ==
    /\ loops[th].pc = "find"
    /\ LET ks == {k \in DOMAIN executors : executors[k].name_prefix = loops[th].service}
       IN  loops' = [loops EXCEPT ![th] =
                        IF ks # {}
                        THEN [@ EXCEPT !.pc = "submit",
                                       !.pool = CHOOSE k \in ks : \A l \in ks : k <= l]
                        ELSE [@ EXCEPT !.pc = "create"]]
    /\ UNCHANGED <<busvars, call, svars, cvars, tvars, lvars, program, executors>>

\* _find_or_create_executor, the else branch: a new pool is appended
create_executor(th) ==
    /\ loops[th].pc = "create"
    /\ executors' = Append(executors, [name_prefix |-> loops[th].service, shutdown |-> FALSE,
                                        pending |-> 0, active |-> 0])
    /\ loops' = [loops EXCEPT ![th].pc = "submit", ![th].pool = Len(executors) + 1]
    /\ UNCHANGED <<busvars, call, svars, cvars, tvars, lvars, program>>

\* submit_job: executor.submit puts the job into the pool (it raises when
\* the pool is shut down); the loop goes on
submit_job(th) ==
    /\ loops[th].pc = "submit"
    /\ LET p == loops[th].pool IN
         IF executors[p].shutdown THEN UNCHANGED executors
         ELSE /\ executors[p].pending < MaxJobs
              /\ executors' = [executors EXCEPT ![p].pending = @ + 1]
    /\ loops' = [loops EXCEPT ![th] = [NoLoop EXCEPT !.pc = IF th = "Scheduler" THEN "next" ELSE "while"]]
    /\ UNCHANGED <<busvars, call, svars, cvars, tvars, lvars, program>>

\* a worker of the pool takes a job
Pool_start_job(k) ==
    /\ k \in DOMAIN executors
    /\ executors[k].pending > 0 /\ executors[k].active < DefaultMaxWorkers
    /\ executors' = [executors EXCEPT ![k].pending = @ - 1, ![k].active = @ + 1]
    /\ UNCHANGED <<busvars, call, svars, cvars, tvars, lvars, program, loops>>

\* the job returns
Pool_finish_job(k) ==
    /\ k \in DOMAIN executors
    /\ executors[k].active > 0
    /\ executors' = [executors EXCEPT ![k].active = @ - 1]
    /\ UNCHANGED <<busvars, call, svars, cvars, tvars, lvars, program, loops>>

\* signal_handler on the main thread: Program.stop, then sys.exit
Program_stop ==
    /\ program.initialized /\ ~program.stopped
    /\ executors' = [k \in DOMAIN executors |->
                        IF k \in Range(program.executors)
                        THEN [executors[k] EXCEPT !.shutdown = TRUE] ELSE executors[k]]
    /\ program' = [program EXCEPT !.stopped = TRUE,
                                   !.scheduler = IF @ = "running" THEN "shutdown" ELSE @]
    /\ loops' = [loops EXCEPT !["Main"] = [NoLoop EXCEPT !.pc = "exited"]]
    /\ UNCHANGED <<busvars, call, svars, cvars, tvars, lvars>>

NextPools ==
    \/ Program_start
    \/ Program_initialized
    \/ Scheduler_run
    \/ Program_stop
    \/ \E th \in Loops : Program_run(th) \/ find_executor(th) \/ create_executor(th) \/ submit_job(th)
    \/ \E k \in 1..(Cardinality(Loops)) : Pool_start_job(k) \/ Pool_finish_job(k)

SpecPools == Init /\ [][NextPools]_vars

\* C39: once stop has run, the scheduler is shut down, every pool of the
\* event bus is shut down, and no pool starts a job.
C39_StopShutsPools ==
    [][program'.stopped =>
           /\ program'.scheduler = "shutdown"
           /\ \A k \in DOMAIN executors' : executors'[k].shutdown
           /\ \A k \in DOMAIN executors : executors'[k].active <= executors[k].active]_vars

\* the pools of a service, and the jobs of the service that run
PoolsOf(s) == {k \in DOMAIN executors : executors[k].name_prefix = s}

RECURSIVE ActiveIn(_)
ActiveIn(ks) ==
    IF ks = {} THEN 0
    ELSE LET k == CHOOSE l \in ks : TRUE IN executors[k].active + ActiveIn(ks \ {k})

\* C40: there is at most one pool per service, and the jobs of one service
\* that run at the same time are at most the service's max_workers.
C40_OnePoolPerService ==
    \A s \in PipelineServices \cup ScheduledServices :
        /\ Cardinality(PoolsOf(s)) <= 1
        /\ ActiveIn(PoolsOf(s)) <= DefaultMaxWorkers
====
